---------------------------- MODULE Spec2Model ----------------------------
(***************************************************************************)
(* Shared I2C bus arbitration (SharedI2CMaster / SharedI2CClient) and the  *)
(* LIS3DH accelerometer driver built on it, as a state machine.            *)
(*                                                                         *)
(* Task 0 is the task that drives the accelerometer; tasks 1..NumOther are *)
(* unrelated clients of the same SharedI2CMaster.  Interrupt handlers are  *)
(* actions of their own: a handler runs to completion between task steps.  *)
(***************************************************************************)
EXTENDS Integers, FiniteSets, Sequences, TLC

\* ---------------------------------------------------------------- bounds
NumOther == 1
MaxErrors == 1

\* ------------------------------------------------------------- constants
AccelTask == 0
OtherTasks == 1..NumOther
Tasks == {AccelTask} \cup OtherTasks
NoTask == -1

\* values that StepTimer::GetTimerTicks() returns
Times == {0, 1}

\* enum class LisRegister : the register addresses of the three chips
WhoAmI == 15
Ctrl_0x20 == 32
CtrlReg2_2DW == 33
CtrlReg6_3DSH == 37
OutXL == 40
FifoControl == 46
FifoSource == 47
\* registers below this address hold the factory calibration values
FirstWritableRegister == 30

I2cActive ==
    {"sendingAddressForWrite", "writing", "sendingTenBitAddressForRead",
     "sendingAddressForRead", "reading"}
I2cError == {"busError", "nakError", "otherError"}
I2cState == {"idle"} \cup I2cActive \cup I2cError

VARIABLES
    \* --- SharedI2CMaster / SharedI2CClient
    mutex,          \* SharedI2CMaster::mutex : the task that owns it, or NoTask
    cpc,            \* per task: position inside SharedI2CClient::Transfer
    creq,           \* per task: [nw, nr] of the Transfer call in progress
    mret,           \* per task: local 'ret' of SharedI2CClient::Transfer
    tret,           \* per task: value returned by the last client Transfer
    relCalled,      \* per task: Release() was called during the current call
    state,          \* SharedI2CMaster::state
    errorCounts,    \* SharedI2CMaster::errorCounts
    \* --- LIS3DH object
    accelerometerType,
    ctrlReg_0x20,
    interruptError,
    totalNumRead,
    firstInterruptTime,
    lastInterruptTime,
    taskWaiting,    \* LIS3DH::taskWaiting : AccelTask or NoTask
    transferBuffer, \* [reg, inc, data0] : register byte (address, auto-increment bit), data[0]
    \* --- hardware and RTOS
    int1Pin,        \* level of the INT1 line
    attached,       \* Int1Interrupt is attached to the rising edge of int1Pin
    notified,       \* the accelerometer task has a pending task notification
    \* --- the task that drives the accelerometer
    apc,            \* position inside the LIS3DH member function being run
    lv,             \* arguments and locals of that member function
    out,            \* what the last completed member function returned
    opLog,          \* what the member function being run has done so far
    \* --- the accelerometer chip
    chipCtrl_0x20,  \* what the chip holds in its register 0x20
    \* --- LIS3DH::Configure seen as a function of its arguments
    snap,           \* the arguments and, once called, what it gave back
    \* --- a Thermistor object (a TemperatureSensor) and what it reads
    thermistor,     \* the members of the object, inherited ones included
    millis,         \* the value of millis()
    thOut,          \* what the last member function called on it did
    \* --- the collection run in progress, as an observer sees it
    run             \* the timer, and the interrupts taken since the run began

busVars == <<mutex, cpc, creq, mret, tret, relCalled, state, errorCounts>>
lisVars ==
    <<accelerometerType, ctrlReg_0x20, interruptError, totalNumRead,
      firstInterruptTime, lastInterruptTime, taskWaiting, transferBuffer>>
hwVars == <<int1Pin, attached, notified>>
drvVars == <<apc, lv, out, opLog>>
thVars == <<thermistor, millis, thOut>>
extVars == <<chipCtrl_0x20, snap, thVars, run>>
vars == <<busVars, lisVars, hwVars, drvVars, extVars>>

NoReq == [nw |-> 0, nr |-> 0]

\* ------------------------------------------------------------------------
\* RTOS Mutex, as used by SharedI2CMaster::Take / Release
\* ------------------------------------------------------------------------

\* Fault variant of MutexTake: the caller gets the mutex whoever owns it
MutexTakeUnguarded(t) ==
    /\ mutex' = t

\* mutex.Take(timeout) returning true: the mutex is free and the caller gets it
MutexTake(t) ==
    /\ mutex = NoTask
    /\ mutex' = t

\* mutex.Take(timeout) returning false: the mutex stayed with another task
\* until the timeout expired
MutexTakeFails(t) ==
    /\ mutex # NoTask
    /\ mutex # t
    /\ mutex' = mutex

\* Fault variant of MutexRelease: the mutex stays with its owner
MutexReleaseKept(t) ==
    /\ mutex' = mutex

\* mutex.Release()
MutexRelease(t) ==
    /\ mutex' = IF mutex = t THEN NoTask ELSE mutex

\* ------------------------------------------------------------------------
\* SharedI2CClient::Transfer
\*   cpc: "idle" not in a call, "take" at device.Take(timeout), "transfer"
\*   .. "finish" inside device.Transfer, "release" at device.Release(),
\*   "ret" returned to the caller with tret
\* ------------------------------------------------------------------------

\* the call itself: the caller enters SharedI2CClient::Transfer
ClientEnter(t, req) ==
    /\ cpc' = [cpc EXCEPT ![t] = "take"]
    /\ creq' = [creq EXCEPT ![t] = req]
    /\ mret' = [mret EXCEPT ![t] = "none"]
    /\ relCalled' = [relCalled EXCEPT ![t] = FALSE]
    /\ tret' = [tret EXCEPT ![t] = FALSE]

\* Fault variant of ClientTakeOk: the transfer is entered without the mutex
ClientTakeOkUnlocked(t) ==
    /\ cpc[t] = "take"
    /\ mutex = NoTask
    /\ cpc' = [cpc EXCEPT ![t] = "transfer"]
    /\ UNCHANGED <<mutex, creq, mret, tret, relCalled, state, errorCounts>>
    /\ UNCHANGED <<lisVars, hwVars, drvVars>>
    /\ UNCHANGED extVars

\* if (!device.Take(timeout)) : Take succeeded, fall through to device.Transfer
ClientTakeOk(t) ==
    /\ cpc[t] = "take"
    /\ MutexTake(t)
    /\ cpc' = [cpc EXCEPT ![t] = "transfer"]
    /\ UNCHANGED <<creq, mret, tret, relCalled, state, errorCounts>>
    /\ UNCHANGED <<lisVars, hwVars, drvVars>>
    /\ UNCHANGED extVars

\* Fault variant of ClientTakeTimeout: Release() is called on the way out
ClientTakeTimeoutReleases(t) ==
    /\ cpc[t] = "take"
    /\ MutexTakeFails(t)
    /\ cpc' = [cpc EXCEPT ![t] = "ret"]
    /\ tret' = [tret EXCEPT ![t] = FALSE]
    /\ relCalled' = [relCalled EXCEPT ![t] = TRUE]
    /\ UNCHANGED <<creq, mret, state, errorCounts>>
    /\ UNCHANGED <<lisVars, hwVars, drvVars>>
    /\ UNCHANGED extVars

\* if (!device.Take(timeout)) { return false; }
ClientTakeTimeout(t) ==
    /\ cpc[t] = "take"
    /\ MutexTakeFails(t)
    /\ cpc' = [cpc EXCEPT ![t] = "ret"]
    /\ tret' = [tret EXCEPT ![t] = FALSE]
    /\ UNCHANGED <<creq, mret, relCalled, state, errorCounts>>
    /\ UNCHANGED <<lisVars, hwVars, drvVars>>
    /\ UNCHANGED extVars

\* Fault variant of ClientRelease: a failed transfer returns early, without
\* Release()
ClientReleaseOnSuccess(t) ==
    /\ cpc[t] = "release"
    /\ IF mret[t] = "ok"
         THEN MutexRelease(t) /\ relCalled' = [relCalled EXCEPT ![t] = TRUE]
         ELSE UNCHANGED <<mutex, relCalled>>
    /\ tret' = [tret EXCEPT ![t] = (mret[t] = "ok")]
    /\ cpc' = [cpc EXCEPT ![t] = "ret"]
    /\ UNCHANGED <<creq, mret, state, errorCounts>>
    /\ UNCHANGED <<lisVars, hwVars, drvVars>>
    /\ UNCHANGED extVars

\* device.Release(); return ret;
ClientRelease(t) ==
    /\ cpc[t] = "release"
    /\ MutexRelease(t)
    /\ relCalled' = [relCalled EXCEPT ![t] = TRUE]
    /\ tret' = [tret EXCEPT ![t] = (mret[t] = "ok")]
    /\ cpc' = [cpc EXCEPT ![t] = "ret"]
    /\ UNCHANGED <<creq, mret, state, errorCounts>>
    /\ UNCHANGED <<lisVars, hwVars, drvVars>>
    /\ UNCHANGED extVars

\* ------------------------------------------------------------------------
\* SharedI2CMaster::Transfer and SharedI2CMaster::Interrupt.
\* Only the declarations are in SharedI2CMaster.h; the bodies follow the
\* specification of the bus master's state machine.
\*   cpc "transfer": the call is entered; "wait": the caller is suspended
\*   until the interrupt path completes or the software timeout expires;
\*   "finish": the state machine is done, waiting for the stop condition.
\* ------------------------------------------------------------------------
ErrTotal == errorCounts.naks + errorCounts.resets

CanCountError == ErrTotal < MaxErrors

\* the caller starts the transaction and suspends
MasterBegin(t) ==
    /\ cpc[t] = "transfer"
    /\ state' = IF creq[t].nw > 0 THEN "sendingAddressForWrite"
                                  ELSE "sendingAddressForRead"
    /\ cpc' = [cpc EXCEPT ![t] = "wait"]
    /\ UNCHANGED <<mutex, creq, mret, tret, relCalled, errorCounts>>
    /\ UNCHANGED <<lisVars, hwVars, drvVars>>
    /\ UNCHANGED extVars

\* the phase that follows 'st' in a transaction that reads 'nr' bytes
NextPhase(st, nr) ==
    CASE st = "sendingAddressForWrite" -> "writing"
      [] st = "writing" -> IF nr > 0 THEN "sendingAddressForRead" ELSE "idle"
      [] st = "sendingTenBitAddressForRead" -> "sendingAddressForRead"
      [] st = "sendingAddressForRead" -> "reading"
      [] st = "reading" -> "idle"
      [] OTHER -> st

\* what the device answers when register 'reg' is read
WhoAmIValues == {51, 63, 68, 0}
SampleBytes == {0}
DeviceData(reg, S) ==
    CASE reg = WhoAmI -> WhoAmIValues
      [] reg = FifoSource -> S[accelerometerType]
      [] OTHER -> SampleBytes

\* SharedI2CMaster::Interrupt : the peripheral reports progress; the handler
\* advances the state machine, storing received bytes in the caller's buffer
I2cStep(S) ==
    /\ state \in I2cActive
    /\ mutex # NoTask
    /\ cpc[mutex] = "wait"
    /\ state' = NextPhase(state, creq[mutex].nr)
    /\ IF state = "reading" /\ mutex = AccelTask
          THEN \E b \in DeviceData(transferBuffer.reg, S) :
                  transferBuffer' = [transferBuffer EXCEPT !.data0 = b]
          ELSE UNCHANGED transferBuffer
    /\ UNCHANGED <<mutex, cpc, creq, mret, tret, relCalled, errorCounts>>
    /\ UNCHANGED <<accelerometerType, ctrlReg_0x20, interruptError, totalNumRead,
                   firstInterruptTime, lastInterruptTime, taskWaiting>>
    /\ UNCHANGED <<hwVars, drvVars>>

\* the same, the chip at the other end of the bus left out of the picture
I2cAdvance(S) ==
    /\ I2cStep(S)
    /\ UNCHANGED extVars

\* the same with the chip in the picture: the byte that follows the register
\* address of a write is stored in that register when it has been sent
I2cAdvanceChip(S) ==
    /\ I2cStep(S)
    /\ chipCtrl_0x20' =
          IF state = "writing" /\ mutex = AccelTask /\ transferBuffer.reg = Ctrl_0x20
            THEN transferBuffer.data0 ELSE chipCtrl_0x20
    /\ UNCHANGED <<snap, thVars, run>>

\* SharedI2CMaster::Interrupt : the peripheral reports a NAK or a bus error
I2cFault(e) ==
    /\ state \in I2cActive
    /\ mutex # NoTask
    /\ cpc[mutex] = "wait"
    /\ CanCountError
    /\ state' = e
    /\ UNCHANGED <<mutex, cpc, creq, mret, tret, relCalled, errorCounts>>
    /\ UNCHANGED <<lisVars, hwVars, drvVars>>
    /\ UNCHANGED extVars

\* the caller is woken with the state machine back in idle
MasterComplete(t) ==
    /\ cpc[t] = "wait"
    /\ state = "idle"
    /\ cpc' = [cpc EXCEPT ![t] = "finish"]
    /\ UNCHANGED <<mutex, creq, mret, tret, relCalled, state, errorCounts>>
    /\ UNCHANGED <<lisVars, hwVars, drvVars>>
    /\ UNCHANGED extVars

\* the caller is woken with a failure indication
MasterFailed(t) ==
    /\ cpc[t] = "wait"
    /\ state \in I2cError
    /\ errorCounts' =
          IF state = "nakError"
            THEN [errorCounts EXCEPT !.naks = @ + 1]
            ELSE [errorCounts EXCEPT !.resets = @ + 1]
    /\ state' = "idle"
    /\ mret' = [mret EXCEPT ![t] = "fail"]
    /\ cpc' = [cpc EXCEPT ![t] = "release"]
    /\ UNCHANGED <<mutex, creq, tret, relCalled>>
    /\ UNCHANGED <<lisVars, hwVars, drvVars>>
    /\ UNCHANGED extVars

\* the counter that a timeout in phase 'st' increments
TimeoutCounter(st) ==
    IF st \in {"sendingAddressForRead", "reading"} THEN "recvTimeouts"
                                                   ELSE "sendTimeouts"

\* errorCounts after a timeout counted in 'field' and the reset that follows
CountTimeout(field) ==
    [errorCounts EXCEPT ![field] = @ + 1, !.resets = @ + 1]

\* the software timeout expires with the transaction still in flight:
\* the peripheral is reset and the bus returns to idle
MasterTimeout(t) ==
    /\ cpc[t] = "wait"
    /\ state \in I2cActive
    /\ CanCountError
    /\ errorCounts' = CountTimeout(TimeoutCounter(state))
    /\ state' = "idle"
    /\ mret' = [mret EXCEPT ![t] = "fail"]
    /\ cpc' = [cpc EXCEPT ![t] = "release"]
    /\ UNCHANGED <<mutex, creq, tret, relCalled>>
    /\ UNCHANGED <<lisVars, hwVars, drvVars>>
    /\ UNCHANGED extVars

\* the stop condition completes: Transfer returns true
MasterFinishOk(t) ==
    /\ cpc[t] = "finish"
    /\ mret' = [mret EXCEPT ![t] = "ok"]
    /\ cpc' = [cpc EXCEPT ![t] = "release"]
    /\ UNCHANGED <<mutex, creq, tret, relCalled, state, errorCounts>>
    /\ UNCHANGED <<lisVars, hwVars, drvVars>>
    /\ UNCHANGED extVars

\* the stop condition does not complete in time: Transfer returns false
MasterFinishTimeout(t) ==
    /\ cpc[t] = "finish"
    /\ CanCountError
    /\ errorCounts' = CountTimeout("finishTimeouts")
    /\ state' = "idle"
    /\ mret' = [mret EXCEPT ![t] = "fail"]
    /\ cpc' = [cpc EXCEPT ![t] = "release"]
    /\ UNCHANGED <<mutex, creq, tret, relCalled>>
    /\ UNCHANGED <<lisVars, hwVars, drvVars>>
    /\ UNCHANGED extVars

\* ------------------------------------------------------------------------
\* A client task unrelated to the accelerometer: it calls
\* SharedI2CClient::Transfer with some request and looks at the result
\* ------------------------------------------------------------------------
Requests == {[nw |-> 1, nr |-> 0], [nw |-> 1, nr |-> 1]}
WriteRequests == {[nw |-> 1, nr |-> 0]}

GenericCall(t, R) ==
    /\ cpc[t] = "idle"
    /\ \E req \in R : ClientEnter(t, req)
    /\ UNCHANGED <<mutex, state, errorCounts>>
    /\ UNCHANGED <<lisVars, hwVars, drvVars>>
    /\ UNCHANGED extVars

GenericReturn(t) ==
    /\ cpc[t] = "ret"
    /\ cpc' = [cpc EXCEPT ![t] = "idle"]
    /\ creq' = [creq EXCEPT ![t] = NoReq]
    /\ mret' = [mret EXCEPT ![t] = "none"]
    /\ tret' = [tret EXCEPT ![t] = FALSE]
    /\ relCalled' = [relCalled EXCEPT ![t] = FALSE]
    /\ UNCHANGED <<mutex, state, errorCounts>>
    /\ UNCHANGED <<lisVars, hwVars, drvVars>>
    /\ UNCHANGED extVars

\* ------------------------------------------------------------------------
\* Bit operations on unsigned bytes
\* ------------------------------------------------------------------------
RECURSIVE BitAnd(_, _)
BitAnd(a, b) ==
    IF a = 0 \/ b = 0 THEN 0
    ELSE (IF a % 2 = 1 /\ b % 2 = 1 THEN 1 ELSE 0) + 2 * BitAnd(a \div 2, b \div 2)

RECURSIVE BitOr(_, _)
BitOr(a, b) ==
    IF a = 0 THEN b
    ELSE IF b = 0 THEN a
    ELSE (IF a % 2 = 1 \/ b % 2 = 1 THEN 1 ELSE 0) + 2 * BitOr(a \div 2, b \div 2)

\* ------------------------------------------------------------------------
\* LIS3DH register helpers (I2C build)
\* ------------------------------------------------------------------------
LvNone ==
    [idx |-> 0, axes |-> 0, rate |-> 0, res |-> 0, ctrlRegValue |-> 0,
     fifoStatus |-> 0, numToRead |-> 0, woken |-> FALSE, reg |-> 0, n |-> 0]
\* opLog: pin = what digitalRead returned at StartCollecting's check;
\* wrote20, attach = register 0x20 was written, attachInterrupt was called;
\* status = the FIFO status byte CollectData read (-1: none); burst = the bytes
\* asked of the burst read; burstOk = the burst read succeeded; tsRead = the
\* timestamps were read, by a task that Take() had woken or not
LogNone ==
    [pin |-> "none", wrote20 |-> FALSE, attach |-> FALSE, status |-> -1,
     burst |-> 0, burstOk |-> FALSE, tsRead |-> "no"]
OutNone == [op |-> "none", val |-> 0, overflowed |-> FALSE]

\* LIS3DH::ReadRegisters(reg, numToRead)
ReadRegisters(reg, n) ==
    /\ transferBuffer' =
          [transferBuffer EXCEPT !.reg = reg,
                                 !.inc = (n >= 2 /\ accelerometerType = "LIS3DH")]
    /\ ClientEnter(AccelTask, [nw |-> 1, nr |-> n])

\* Fault variant of WriteRegisters: no register is refused
WriteRegistersUnguarded(reg, n, first) ==
    /\ transferBuffer' =
          [reg |-> reg, inc |-> (n >= 2 /\ accelerometerType = "LIS3DH"),
           data0 |-> first]
    /\ ClientEnter(AccelTask, [nw |-> 1 + n, nr |-> 0])

\* LIS3DH::WriteRegisters(reg, numToWrite), data[0] already set to 'first'.
\* A register below 0x1E is refused before anything else is done: the caller
\* sees Transfer as not called and the result false.
WriteRegisters(reg, n, first) ==
    IF reg < FirstWritableRegister
      THEN /\ transferBuffer' = [transferBuffer EXCEPT !.data0 = first]
           /\ cpc' = [cpc EXCEPT ![AccelTask] = "ret"]
           /\ creq' = [creq EXCEPT ![AccelTask] = NoReq]
           /\ mret' = [mret EXCEPT ![AccelTask] = "none"]
           /\ tret' = [tret EXCEPT ![AccelTask] = FALSE]
           /\ relCalled' = [relCalled EXCEPT ![AccelTask] = FALSE]
      ELSE /\ transferBuffer' =
                 [reg |-> reg, inc |-> (n >= 2 /\ accelerometerType = "LIS3DH"),
                  data0 |-> first]
           /\ ClientEnter(AccelTask, [nw |-> 1 + n, nr |-> 0])

\* LIS3DH::WriteRegister(reg, val)
WriteRegister(reg, val) == WriteRegisters(reg, 1, val)

\* the member function goes on without a bus transaction
NoTransfer ==
    /\ cpc' = [cpc EXCEPT ![AccelTask] = "idle"]
    /\ creq' = [creq EXCEPT ![AccelTask] = NoReq]
    /\ UNCHANGED <<mret, tret, relCalled, transferBuffer>>

\* The member function returns 'val' to its caller.  Its locals and the
\* transaction it did last are dead from here on: every member function
\* writes transferBuffer.reg before it starts a transaction and reads data[0]
\* only after a successful read has stored it, so the model forgets them.
BufferNone == [reg |-> -1, inc |-> FALSE, data0 |-> 0]

Return(op, val, ovf) ==
    /\ apc' = "idle"
    /\ lv' = LvNone
    /\ out' = [op |-> op, val |-> val, overflowed |-> ovf]
    /\ cpc' = [cpc EXCEPT ![AccelTask] = "idle"]
    /\ creq' = [creq EXCEPT ![AccelTask] = NoReq]
    /\ mret' = [mret EXCEPT ![AccelTask] = "none"]
    /\ tret' = [tret EXCEPT ![AccelTask] = FALSE]
    /\ relCalled' = [relCalled EXCEPT ![AccelTask] = FALSE]
    /\ transferBuffer' = BufferNone

\* the accelerometer task is at 'pc' and the transfer it called has returned
Returned(pc) ==
    /\ apc = pc
    /\ cpc[AccelTask] = "ret"

\* ------------------------------------------------------------------------
\* LIS3DH::CheckPresent
\* ------------------------------------------------------------------------
NumLisAddresses == 4

\* Fault variant of TypeOfWhoAmI: 0x3F and 0x44 name each other's chip
TypeOfWhoAmISwapped(v) ==
    CASE v = 51 -> "LIS3DH"
      [] v = 63 -> "LIS2DW"
      [] v = 68 -> "LIS3DSH"
      [] OTHER -> "none"

TypeOfWhoAmI(v) ==
    CASE v = 51 -> "LIS3DH"
      [] v = 63 -> "LIS3DSH"
      [] v = 68 -> "LIS2DW"
      [] OTHER -> "none"

CpCall ==
    /\ apc = "idle"
    /\ cpc[AccelTask] = "idle"
    /\ interruptError' = FALSE
    /\ apc' = "cp_read"
    /\ lv' = [LvNone EXCEPT !.idx = 1]
    /\ opLog' = LogNone
    /\ ReadRegisters(WhoAmI, 1)
    /\ out' = OutNone
    /\ UNCHANGED <<mutex, state, errorCounts, hwVars>>
    /\ UNCHANGED <<accelerometerType, ctrlReg_0x20, totalNumRead,
                   firstInterruptTime, lastInterruptTime, taskWaiting>>
    /\ UNCHANGED extVars

CpRet ==
    /\ Returned("cp_read")
    /\ IF tret[AccelTask] /\ TypeOfWhoAmI(transferBuffer.data0) # "none"
         THEN /\ accelerometerType' = TypeOfWhoAmI(transferBuffer.data0)
              /\ Return("CheckPresent", TRUE, out.overflowed)
         ELSE IF lv.idx < NumLisAddresses
         THEN /\ lv' = [lv EXCEPT !.idx = @ + 1]
              /\ ReadRegisters(WhoAmI, 1)
              /\ UNCHANGED <<accelerometerType, apc, out>>
         ELSE /\ Return("CheckPresent", FALSE, out.overflowed)
              /\ UNCHANGED accelerometerType
    /\ UNCHANGED <<mutex, state, errorCounts, opLog, hwVars>>
    /\ UNCHANGED <<ctrlReg_0x20, interruptError, totalNumRead,
                   firstInterruptTime, lastInterruptTime, taskWaiting>>
    /\ UNCHANGED extVars

\* ------------------------------------------------------------------------
\* LIS3DH::Configure(samplingRate, resolution)
\* ------------------------------------------------------------------------
FifoInterruptLevel == 24

\* LIS3DSH / LIS2DW : the rate selected and the value cached for register 0x20
RateSelect(rate, extra) ==
    IF rate = 0 \/ rate >= 1200 THEN [rate |-> 1600, ctrl |-> BitOr(144, extra)]
    ELSE IF rate >= 600 THEN [rate |-> 800, ctrl |-> BitOr(128, extra)]
    ELSE [rate |-> 400, ctrl |-> BitOr(112, extra)]

\* LIS3DH : the resolution selected
Res3DH(res) == IF res >= 12 THEN 12 ELSE IF res < 10 THEN 8 ELSE 10

\* LIS3DH : the rate selected and the output data rate code
Odr3DH(rate, res) ==
    IF rate >= 1000
      THEN IF res >= 10 THEN [rate |-> 1344, odr |-> 9]
           ELSE IF rate >= 5000 THEN [rate |-> 5376, odr |-> 9]
           ELSE [rate |-> 1600, odr |-> 8]
      ELSE [rate |-> 400, odr |-> 7]

\* LIS3DH : the value cached for register 0x20
Ctrl3DH(rate, res) ==
    BitOr(IF Res3DH(res) = 8 THEN 8 ELSE 0, Odr3DH(rate, Res3DH(res)).odr * 16)

\* the value written to the FIFO control register
FifoControlValue(type) ==
    CASE type = "LIS3DSH" -> BitOr(2 * 32, FifoInterruptLevel - 1)
      [] type = "LIS2DW" -> BitOr(6 * 32, FifoInterruptLevel - 1)
      [] OTHER -> BitOr(2 * 64, FifoInterruptLevel - 1)

CfCall(rate, res) ==
    /\ apc = "idle"
    /\ cpc[AccelTask] = "idle"
    /\ opLog' = LogNone
    /\ CASE accelerometerType = "LIS3DSH" ->
              /\ lv' = [LvNone EXCEPT !.rate = rate, !.res = 16]
              /\ WriteRegister(CtrlReg6_3DSH, 16)
              /\ apc' = "cf_w1"
              /\ UNCHANGED ctrlReg_0x20
         [] accelerometerType = "LIS2DW" ->
              /\ lv' = [LvNone EXCEPT !.rate = rate, !.res = 14]
              /\ WriteRegister(CtrlReg2_2DW, 4)
              /\ apc' = "cf_w1"
              /\ UNCHANGED ctrlReg_0x20
         [] OTHER ->
              /\ ctrlReg_0x20' = Ctrl3DH(rate, res)
              /\ lv' = [LvNone EXCEPT !.rate = Odr3DH(rate, Res3DH(res)).rate,
                                      !.res = Res3DH(res)]
              /\ WriteRegisters(Ctrl_0x20, 6, 0)
              /\ apc' = "cf_w2"
    /\ out' = OutNone
    /\ UNCHANGED <<mutex, state, errorCounts, hwVars>>
    /\ UNCHANGED <<accelerometerType, interruptError, totalNumRead,
                   firstInterruptTime, lastInterruptTime, taskWaiting>>
    /\ UNCHANGED extVars

\* LIS3DSH / LIS2DW : after the write that sets the address increment bit
CfW1Ret ==
    /\ Returned("cf_w1")
    /\ IF tret[AccelTask]
         THEN LET sel == RateSelect(lv.rate,
                                    IF accelerometerType = "LIS2DW" THEN 4 ELSE 0)
              IN /\ ctrlReg_0x20' = sel.ctrl
                 /\ lv' = [lv EXCEPT !.rate = sel.rate]
                 /\ WriteRegisters(Ctrl_0x20, 6, 0)
                 /\ apc' = "cf_w2"
                 /\ UNCHANGED out
         ELSE /\ Return("Configure", FALSE, out.overflowed)
              /\ UNCHANGED ctrlReg_0x20
    /\ UNCHANGED <<mutex, state, errorCounts, opLog, hwVars>>
    /\ UNCHANGED <<accelerometerType, interruptError, totalNumRead,
                   firstInterruptTime, lastInterruptTime, taskWaiting>>
    /\ UNCHANGED extVars

\* after the write of the six control registers
CfW2Ret ==
    /\ Returned("cf_w2")
    /\ IF tret[AccelTask]
         THEN /\ WriteRegister(FifoControl, FifoControlValue(accelerometerType))
              /\ apc' = "cf_w3"
              /\ UNCHANGED <<lv, out>>
         ELSE Return("Configure", FALSE, out.overflowed)
    /\ UNCHANGED <<mutex, state, errorCounts, opLog, hwVars>>
    /\ UNCHANGED <<accelerometerType, ctrlReg_0x20, interruptError, totalNumRead,
                   firstInterruptTime, lastInterruptTime, taskWaiting>>
    /\ UNCHANGED extVars

\* after the write of the FIFO control register
CfW3Ret ==
    /\ Returned("cf_w3")
    /\ Return("Configure", tret[AccelTask], out.overflowed)
    /\ UNCHANGED <<mutex, state, errorCounts, opLog, hwVars>>
    /\ UNCHANGED <<accelerometerType, ctrlReg_0x20, interruptError, totalNumRead,
                   firstInterruptTime, lastInterruptTime, taskWaiting>>
    /\ UNCHANGED extVars

\* ------------------------------------------------------------------------
\* LIS3DH::StartCollecting(axes)
\* ------------------------------------------------------------------------

\* the FIFO source byte 'v' says that the FIFO is not empty
FifoNotEmpty(type, v) ==
    IF type = "LIS2DW" THEN BitAnd(v, 63) # 0 ELSE BitAnd(v, 32) = 0

ScCall(axes) ==
    /\ apc = "idle"
    /\ cpc[AccelTask] = "idle"
    /\ opLog' = LogNone
    /\ lv' = [LvNone EXCEPT !.axes = axes, !.ctrlRegValue = ctrlReg_0x20]
    /\ ReadRegisters(FifoSource, 1)
    /\ apc' = "sc_fifo"
    /\ out' = OutNone
    /\ UNCHANGED <<mutex, state, errorCounts, hwVars>>
    /\ UNCHANGED <<accelerometerType, ctrlReg_0x20, interruptError, totalNumRead,
                   firstInterruptTime, lastInterruptTime, taskWaiting>>
    /\ UNCHANGED extVars

\* Fault variant of ResetCount: the task clears the timestamps as well
ResetCountAndTimes ==
    /\ totalNumRead' = 0
    /\ firstInterruptTime' = 0
    /\ lastInterruptTime' = 0

\* totalNumRead = 0
ResetCount ==
    /\ totalNumRead' = 0
    /\ UNCHANGED <<firstInterruptTime, lastInterruptTime>>

\* the loop condition of the FIFO drain, and what follows the loop up to
\* 'totalNumRead = 0'
ScFifoRet ==
    /\ Returned("sc_fifo")
    /\ IF tret[AccelTask] /\ FifoNotEmpty(accelerometerType, transferBuffer.data0)
         THEN /\ ReadRegisters(OutXL, 6)
              /\ apc' = "sc_drain"
              /\ UNCHANGED <<lv, totalNumRead, firstInterruptTime, lastInterruptTime>>
         ELSE /\ lv' = [lv EXCEPT !.ctrlRegValue =
                          IF accelerometerType = "LIS2DW"
                            THEN @ ELSE BitOr(@, BitAnd(lv.axes, 7))]
              /\ ResetCount
              /\ apc' = "sc_check"
              /\ NoTransfer
    /\ UNCHANGED <<mutex, state, errorCounts, out, opLog, hwVars>>
    /\ UNCHANGED <<accelerometerType, ctrlReg_0x20, interruptError, taskWaiting>>
    /\ UNCHANGED extVars

\* the body of the FIFO drain loop
ScDrainRet ==
    /\ Returned("sc_drain")
    /\ IF tret[AccelTask]
         THEN /\ ReadRegisters(FifoSource, 1)
              /\ apc' = "sc_fifo"
              /\ UNCHANGED <<lv, out>>
         ELSE Return("StartCollecting", FALSE, out.overflowed)
    /\ UNCHANGED <<mutex, state, errorCounts, opLog, hwVars>>
    /\ UNCHANGED <<accelerometerType, ctrlReg_0x20, interruptError, totalNumRead,
                   firstInterruptTime, lastInterruptTime, taskWaiting>>
    /\ UNCHANGED extVars

\* Fault variant of ScCheck: the result of the check is recorded but the
\* function goes on to enable collection
ScCheckIgnoresPin ==
    /\ apc = "sc_check"
    /\ interruptError' = int1Pin
    /\ WriteRegister(Ctrl_0x20, lv.ctrlRegValue)
    /\ opLog' = [opLog EXCEPT !.pin = IF int1Pin THEN "high" ELSE "low",
                              !.wrote20 = TRUE]
    /\ apc' = "sc_write"
    /\ UNCHANGED <<lv, out>>
    /\ UNCHANGED <<mutex, state, errorCounts, hwVars>>
    /\ UNCHANGED <<accelerometerType, ctrlReg_0x20, totalNumRead,
                   firstInterruptTime, lastInterruptTime, taskWaiting>>
    /\ UNCHANGED extVars

\* interruptError = digitalRead(int1Pin), and the write of register 0x20
ScCheck ==
    /\ apc = "sc_check"
    /\ interruptError' = int1Pin
    /\ IF int1Pin
         THEN /\ Return("StartCollecting", FALSE, out.overflowed)
              /\ opLog' = [opLog EXCEPT !.pin = "high"]
         ELSE /\ WriteRegister(Ctrl_0x20, lv.ctrlRegValue)
              /\ opLog' = [opLog EXCEPT !.pin = "low", !.wrote20 = TRUE]
              /\ apc' = "sc_write"
              /\ UNCHANGED <<lv, out>>
    /\ UNCHANGED <<mutex, state, errorCounts, hwVars>>
    /\ UNCHANGED <<accelerometerType, ctrlReg_0x20, totalNumRead,
                   firstInterruptTime, lastInterruptTime, taskWaiting>>
    /\ UNCHANGED extVars

\* return ok && attachInterrupt(int1Pin, Int1Interrupt, rising, this)
ScWriteRet ==
    /\ Returned("sc_write")
    /\ IF tret[AccelTask]
         THEN \E ok \in BOOLEAN :
                /\ attached' = (attached \/ ok)
                /\ opLog' = [opLog EXCEPT !.attach = TRUE]
                /\ Return("StartCollecting", ok, out.overflowed)
         ELSE /\ Return("StartCollecting", FALSE, out.overflowed)
              /\ UNCHANGED <<attached, opLog>>
    /\ UNCHANGED <<mutex, state, errorCounts>>
    /\ UNCHANGED <<int1Pin, notified>>
    /\ UNCHANGED <<accelerometerType, ctrlReg_0x20, interruptError, totalNumRead,
                   firstInterruptTime, lastInterruptTime, taskWaiting>>
    /\ UNCHANGED extVars

\* ------------------------------------------------------------------------
\* LIS3DH::StopCollecting
\* ------------------------------------------------------------------------

\* Fault variant of StCall: the cached value of register 0x20 is cleared too
StCallClearsCache ==
    /\ apc = "idle"
    /\ cpc[AccelTask] = "idle"
    /\ opLog' = LogNone
    /\ lv' = LvNone
    /\ WriteRegister(Ctrl_0x20, 0)
    /\ ctrlReg_0x20' = 0
    /\ apc' = "st_write"
    /\ out' = OutNone
    /\ UNCHANGED <<mutex, state, errorCounts, hwVars>>
    /\ UNCHANGED <<accelerometerType, interruptError, totalNumRead,
                   firstInterruptTime, lastInterruptTime, taskWaiting>>
    /\ UNCHANGED extVars

StCall ==
    /\ apc = "idle"
    /\ cpc[AccelTask] = "idle"
    /\ opLog' = LogNone
    /\ lv' = LvNone
    /\ WriteRegister(Ctrl_0x20, 0)
    /\ apc' = "st_write"
    /\ out' = OutNone
    /\ UNCHANGED <<mutex, state, errorCounts, hwVars>>
    /\ UNCHANGED <<accelerometerType, ctrlReg_0x20, interruptError, totalNumRead,
                   firstInterruptTime, lastInterruptTime, taskWaiting>>
    /\ UNCHANGED extVars

StRet ==
    /\ Returned("st_write")
    /\ Return("StopCollecting", TRUE, out.overflowed)
    /\ UNCHANGED <<mutex, state, errorCounts, opLog, hwVars>>
    /\ UNCHANGED <<accelerometerType, ctrlReg_0x20, interruptError, totalNumRead,
                   firstInterruptTime, lastInterruptTime, taskWaiting>>
    /\ UNCHANGED extVars

\* ------------------------------------------------------------------------
\* LIS3DH::CollectData
\* ------------------------------------------------------------------------

\* CollectData is called while totalNumRead is below this
MaxTotalRead == 2

\* Fault variant of NumToRead: a level of 0 is never taken to mean 32
NumToReadNoWrap(type, v) ==
    IF type = "LIS2DW" THEN BitAnd(v, 63) ELSE BitAnd(v, 31)

\* the number of samples that FIFO status byte 'v' makes CollectData read
NumToRead(type, v) ==
    IF type = "LIS2DW" THEN BitAnd(v, 63)
    ELSE IF BitAnd(v, 31) = 0 /\ BitAnd(v, 32) = 0 THEN 32
    ELSE BitAnd(v, 31)

\* taskWaiting = TaskBase::GetCallerTaskHandle()
CdCall ==
    /\ apc = "idle"
    /\ cpc[AccelTask] = "idle"
    /\ totalNumRead < MaxTotalRead
    /\ opLog' = LogNone
    /\ lv' = LvNone
    /\ taskWaiting' = AccelTask
    /\ apc' = "cd_loop"
    /\ out' = OutNone
    /\ UNCHANGED <<busVars, hwVars>>
    /\ UNCHANGED <<accelerometerType, ctrlReg_0x20, interruptError, totalNumRead,
                   firstInterruptTime, lastInterruptTime, transferBuffer>>
    /\ UNCHANGED extVars

\* while (!digitalRead(int1Pin))
CdReadPin ==
    /\ apc = "cd_loop"
    /\ apc' = IF int1Pin THEN "cd_exit" ELSE "cd_take"
    /\ UNCHANGED <<busVars, lisVars, hwVars, lv, out, opLog>>
    /\ UNCHANGED extVars

\* TaskBase::Take() : returns once the task has a notification, and clears it
CdTake ==
    /\ apc = "cd_take"
    /\ notified
    /\ notified' = FALSE
    /\ lv' = [lv EXCEPT !.woken = TRUE]
    /\ apc' = "cd_loop"
    /\ UNCHANGED <<busVars, lisVars, out, opLog>>
    /\ UNCHANGED <<int1Pin, attached>>
    /\ UNCHANGED extVars

\* taskWaiting = nullptr, and the read of the FIFO status
CdExit ==
    /\ apc = "cd_exit"
    /\ taskWaiting' = NoTask
    /\ ReadRegisters(FifoSource, 1)
    /\ apc' = "cd_status"
    /\ UNCHANGED <<mutex, state, errorCounts, lv, out, opLog, hwVars>>
    /\ UNCHANGED <<accelerometerType, ctrlReg_0x20, interruptError, totalNumRead,
                   firstInterruptTime, lastInterruptTime>>
    /\ UNCHANGED extVars

\* numToRead from the FIFO status, and the burst read
CdStatusRet ==
    /\ Returned("cd_status")
    /\ LET n == NumToRead(accelerometerType, transferBuffer.data0)
       IN IF ~tret[AccelTask]
            THEN /\ Return("CollectData", 0, out.overflowed)
                 /\ UNCHANGED opLog
          ELSE IF n # 0
            THEN /\ lv' = [lv EXCEPT !.fifoStatus = transferBuffer.data0,
                                     !.numToRead = n]
                 /\ ReadRegisters(OutXL, 6 * n)
                 /\ opLog' = [opLog EXCEPT !.status = transferBuffer.data0,
                                           !.burst = 6 * n]
                 /\ apc' = "cd_burst"
                 /\ UNCHANGED out
            ELSE /\ Return("CollectData", n, out.overflowed)
                 /\ opLog' = [opLog EXCEPT !.status = transferBuffer.data0]
    /\ UNCHANGED <<mutex, state, errorCounts, hwVars>>
    /\ UNCHANGED <<accelerometerType, ctrlReg_0x20, interruptError, totalNumRead,
                   firstInterruptTime, lastInterruptTime, taskWaiting>>
    /\ UNCHANGED extVars

\* overflowed and dataRate: the timestamps are read when totalNumRead != 0
CdBurstRet ==
    /\ Returned("cd_burst")
    /\ IF tret[AccelTask]
         THEN /\ out' = [out EXCEPT !.overflowed = (BitAnd(lv.fifoStatus, 64) # 0)]
              /\ opLog' = [opLog EXCEPT !.burstOk = TRUE, !.tsRead =
                              IF totalNumRead = 0 THEN "no"
                              ELSE IF lv.woken THEN "woken" ELSE "unwoken"]
              /\ apc' = "cd_add"
              /\ NoTransfer
              /\ UNCHANGED lv
         ELSE /\ Return("CollectData", 0, out.overflowed)
              /\ UNCHANGED opLog
    /\ UNCHANGED <<mutex, state, errorCounts, hwVars>>
    /\ UNCHANGED <<accelerometerType, ctrlReg_0x20, interruptError, totalNumRead,
                   firstInterruptTime, lastInterruptTime, taskWaiting>>
    /\ UNCHANGED extVars

\* totalNumRead += numToRead; return numToRead
CdAdd ==
    /\ apc = "cd_add"
    /\ totalNumRead' = totalNumRead + lv.numToRead
    /\ Return("CollectData", lv.numToRead, out.overflowed)
    /\ UNCHANGED <<mutex, state, errorCounts, opLog, hwVars>>
    /\ UNCHANGED <<accelerometerType, ctrlReg_0x20, interruptError,
                   firstInterruptTime, lastInterruptTime, taskWaiting>>
    /\ UNCHANGED extVars

\* ------------------------------------------------------------------------
\* LIS3DH::Int1Isr, and the hardware around it
\* ------------------------------------------------------------------------

\* TaskBase::GiveFromISR(h) : no effect on a null handle
GiveFromISR(h) ==
    notified' = (notified \/ h = AccelTask)

\* Fault variant of Int1Isr: the handler restarts the sample count
Int1IsrResetsCount(now) ==
    /\ firstInterruptTime' = now
    /\ lastInterruptTime' = now
    /\ GiveFromISR(taskWaiting)
    /\ taskWaiting' = NoTask
    /\ totalNumRead' = 0
    /\ UNCHANGED <<busVars, drvVars, attached>>
    /\ UNCHANGED <<accelerometerType, ctrlReg_0x20, interruptError, transferBuffer>>

\* LIS3DH::Int1Isr.  'now' is what StepTimer::GetTimerTicks() returns: the
\* 32-bit timer runs free and wraps, so any value of Times can be read
Int1Isr(now) ==
    /\ firstInterruptTime' = IF totalNumRead = 0 THEN now ELSE firstInterruptTime
    /\ lastInterruptTime' = now
    /\ GiveFromISR(taskWaiting)
    /\ taskWaiting' = NoTask
    /\ UNCHANGED <<busVars, drvVars, attached>>
    /\ UNCHANGED <<accelerometerType, ctrlReg_0x20, interruptError, totalNumRead,
                   transferBuffer>>

\* The INT1 line rises with Int1Interrupt attached: the handler preempts
\* whatever task is running, so it runs before the next step of any task
Int1Interrupt ==
    /\ ~int1Pin
    /\ attached
    /\ int1Pin' = TRUE
    /\ \E now \in Times : Int1Isr(now)
    /\ UNCHANGED extVars

\* the INT1 line rises with no handler attached
PinRise ==
    /\ ~int1Pin
    /\ ~attached
    /\ int1Pin' = TRUE
    /\ UNCHANGED <<busVars, lisVars, drvVars, attached, notified>>
    /\ UNCHANGED extVars

\* the INT1 line falls
PinFall ==
    /\ int1Pin
    /\ int1Pin' = FALSE
    /\ UNCHANGED <<busVars, lisVars, drvVars, attached, notified>>
    /\ UNCHANGED extVars

\* ------------------------------------------------------------------------
\* LIS3DH::Configure as a function of the chip and of its two arguments:
\* what it leaves in samplingRate and resolution when its writes succeed
\* ------------------------------------------------------------------------
ConfigureResult(type, rate, res) ==
    CASE type = "LIS3DSH" -> [rate |-> RateSelect(rate, 0).rate, res |-> 16]
      [] type = "LIS2DW" -> [rate |-> RateSelect(rate, 4).rate, res |-> 14]
      [] OTHER -> [rate |-> Odr3DH(rate, Res3DH(res)).rate, res |-> Res3DH(res)]

\* requests: sampling rates (uint16_t) and resolutions (uint8_t) on both
\* sides of every threshold of the function and of every supported value
SnapRates ==
    {0, 1, 399, 400, 401, 599, 600, 601, 800, 871, 872, 873, 900, 999, 1000,
     1199, 1200, 1343, 1344, 1472, 1600, 3487, 3488, 3489, 4000, 4999, 5000,
     5376, 65535}
SnapResolutions == {0, 7, 8, 9, 10, 11, 12, 13, 14, 16, 255}

SnapCall ==
    /\ ~snap.called
    /\ snap' = [snap EXCEPT !.called = TRUE,
                            !.got = ConfigureResult(snap.type, snap.rate, snap.res)]
    /\ UNCHANGED <<busVars, lisVars, hwVars, drvVars, chipCtrl_0x20, thVars, run>>

\* ------------------------------------------------------------------------
\* LIS3DH::WriteRegister and LIS3DH::WriteRegisters called for any register
\* ------------------------------------------------------------------------

\* register addresses (uint8_t) on both sides of 0x1E, and the byte written
WriteTargets == {0, 29, 30, 32, 255}
WriteCounts == {1, 6}
WriteValues == {255}

\* WriteRegister(reg, val) for n = 1, WriteRegisters(reg, n) otherwise
WrCall(reg, n, val) ==
    /\ apc = "idle"
    /\ cpc[AccelTask] = "idle"
    /\ opLog' = LogNone
    /\ lv' = [LvNone EXCEPT !.reg = reg, !.n = n]
    /\ WriteRegisters(reg, n, val)
    /\ apc' = "wr_write"
    /\ out' = OutNone
    /\ UNCHANGED <<mutex, state, errorCounts, hwVars>>
    /\ UNCHANGED <<accelerometerType, ctrlReg_0x20, interruptError, totalNumRead,
                   firstInterruptTime, lastInterruptTime, taskWaiting>>
    /\ UNCHANGED extVars

WrRet ==
    /\ Returned("wr_write")
    /\ Return("WriteRegisters", tret[AccelTask], out.overflowed)
    /\ UNCHANGED <<mutex, state, errorCounts, opLog, hwVars>>
    /\ UNCHANGED <<accelerometerType, ctrlReg_0x20, interruptError, totalNumRead,
                   firstInterruptTime, lastInterruptTime, taskWaiting>>
    /\ UNCHANGED extVars

\* ------------------------------------------------------------------------
\* Thermistor (a SensorWithPort, which is a TemperatureSensor)
\*
\* Floating point parameters are known by value; the two derived
\* coefficients are the expressions CalcDerivedParameters evaluates, kept
\* unevaluated, so that two of them are equal when they were computed from
\* the same parameters.
\* ------------------------------------------------------------------------

\* TemperatureError
TemperatureErrors ==
    {"success", "notReady", "openCircuit", "shortCircuit", "badVref",
     "badVssa", "timeout"}

\* DefaultR25, DefaultBeta, DefaultShc, DefaultThermistorSeriesR
Defaults == [r25 |-> 100000, beta |-> 4388, shC |-> 0, seriesR |-> 2200]

\* shB = 1.0/beta
ShB(beta) == <<"1/", beta>>

\* shA = 1.0/(25.0 - ABS_ZERO) - shB * lnR25 - shC * lnR25 * lnR25 * lnR25
ShA(r25, shB, shC) == <<"1/(25-ABS_ZERO) - shB*ln - shC*ln^3", r25, shB, shC>>

\* Thermistor::CalcDerivedParameters
CalcDerivedParameters(th) ==
    [th EXCEPT !.shB = ShB(th.beta),
               !.shA = ShA(th.r25, ShB(th.beta), th.shC)]

\* the members TemperatureSensor's constructor sets
NewSensor ==
    [lastTemperature |-> 0, whenLastRead |-> 0, lastResult |-> "notReady",
     lastRealError |-> "success"]

\* Thermistor::Thermistor(sensorNum, p_isPT1000), in a build with or without
\* the VREF and VSSA monitor channels
NewThermistor(isPT1000, vrefMonitor) ==
    CalcDerivedParameters(
        [created |-> TRUE, isPT1000 |-> isPT1000, vrefMonitor |-> vrefMonitor,
         port |-> "none", adcFilterChannel |-> -1,
         r25 |-> Defaults.r25, beta |-> Defaults.beta, shC |-> Defaults.shC,
         seriesR |-> Defaults.seriesR, adcLowOffset |-> 0, adcHighOffset |-> 0,
         shA |-> <<>>, shB |-> <<>>,
         lastTemperature |-> NewSensor.lastTemperature,
         whenLastRead |-> NewSensor.whenLastRead,
         lastResult |-> NewSensor.lastResult,
         lastRealError |-> NewSensor.lastRealError])

ThCreate(isPT1000, vrefMonitor) ==
    /\ ~thermistor.created
    /\ thermistor' = NewThermistor(isPT1000, vrefMonitor)
    /\ thOut' = [op |-> "Thermistor"]
    /\ UNCHANGED <<busVars, lisVars, hwVars, drvVars, chipCtrl_0x20, snap>>
    /\ UNCHANGED <<millis, run>>

\* the keys of a configuration message and the value each one carries
ParamKeys == {"R", "B", "C", "T", "L", "H"}
KeyValue == [R |-> 4700, B |-> 3950, C |-> 7, T |-> 10000, L |-> 3, H |-> 2]
\* the port key: absent, naming a pin that can be used, or one that cannot
PortArgs == {"absent", "good", "bad"}

\* the member that key k sets
KeyField ==
    [R |-> "seriesR", B |-> "beta", C |-> "shC", T |-> "r25",
     L |-> "adcLowOffset", H |-> "adcHighOffset"]

\* parser.GetFloatParam(k, member) / parser.GetIntValue(k, member): the
\* member is stored when the key is there
GetParam(th, keys, k) ==
    IF k \in keys THEN [th EXCEPT ![KeyField[k]] = KeyValue[k]] ELSE th

\* SensorWithPort::ConfigurePort
ConfigurePort(th, p) == IF p = "good" THEN [th EXCEPT !.port = "assigned"] ELSE th

\* Platform::GetAveragingFilterIndex(port)
GetAveragingFilterIndex(port) == IF port = "assigned" THEN 0 ELSE -1

\* seen = parser.GetFloatParam('B', beta) || seen;  if (seen) { shC = 0.0; }
BetaSeen(th, keys, seen) ==
    LET th1 == GetParam(th, keys, "B")
        seen1 == ("B" \in keys) \/ seen
    IN  [th |-> IF seen1 THEN [th1 EXCEPT !.shC = 0] ELSE th1, seen |-> seen1]

\* Fault variant of ThermistorKeys: the derived coefficients are computed
\* again only when B is in the message
ThermistorKeysRecalcOnB(th, keys, seen) ==
    IF th.isPT1000 THEN [th |-> th, seen |-> seen]
    ELSE LET b == BetaSeen(th, keys, seen)
             th2 == GetParam(GetParam(b.th, keys, "C"), keys, "T")
             seen2 == ("C" \in keys) \/ ("T" \in keys) \/ b.seen
         IN  [th |-> IF "B" \in keys THEN CalcDerivedParameters(th2) ELSE th2,
              seen |-> seen2]

\* the parameters of a thermistor proper: B, C, T and the derived coefficients
ThermistorKeys(th, keys, seen) ==
    IF th.isPT1000 THEN [th |-> th, seen |-> seen]
    ELSE LET b == BetaSeen(th, keys, seen)
             th2 == GetParam(GetParam(b.th, keys, "C"), keys, "T")
             seen2 == ("C" \in keys) \/ ("T" \in keys) \/ b.seen
         IN  [th |-> IF seen2 THEN CalcDerivedParameters(th2) ELSE th2,
              seen |-> seen2]

\* the ADC offsets, in a build without the monitor channels
OffsetKeys(th, keys, seen) ==
    IF th.vrefMonitor THEN [th |-> th, seen |-> seen]
    ELSE [th |-> GetParam(GetParam(th, keys, "L"), keys, "H"),
          seen |-> ("L" \in keys) \/ ("H" \in keys) \/ seen]

\* Fault variant of Reregister: the filter is looked up and initialised
\* whether or not a parameter was seen
ReregisterAlways(th, seen) ==
    [th |-> [th EXCEPT !.adcFilterChannel = GetAveragingFilterIndex(th.port)],
     filterInit |-> GetAveragingFilterIndex(th.port) >= 0,
     summary |-> ~seen]

\* the end of Configure: the filter is looked up and initialised when a
\* parameter was seen, the parameters are reported otherwise
Reregister(th, seen) ==
    IF seen
      THEN [th |-> [th EXCEPT !.adcFilterChannel = GetAveragingFilterIndex(th.port)],
            filterInit |-> GetAveragingFilterIndex(th.port) >= 0,
            summary |-> FALSE]
      ELSE [th |-> th, filterInit |-> FALSE, summary |-> TRUE]

\* Thermistor::Configure(parser, reply)
ThConfigure(p, keys) ==
    /\ thermistor.created
    /\ IF p = "bad"
         THEN /\ thOut' = [op |-> "Configure", port |-> p, keys |-> keys,
                           result |-> "error", summary |-> FALSE,
                           filterInit |-> FALSE]
              /\ UNCHANGED thermistor
         ELSE LET a == [th |-> GetParam(ConfigurePort(thermistor, p), keys, "R"),
                        seen |-> ("R" \in keys) \/ (p # "absent")]
                  b == ThermistorKeys(a.th, keys, a.seen)
                  c == OffsetKeys(b.th, keys, b.seen)
                  d == Reregister(c.th, c.seen)
              IN  /\ thermistor' = d.th
                  /\ thOut' = [op |-> "Configure", port |-> p, keys |-> keys,
                               result |-> "ok", summary |-> d.summary,
                               filterInit |-> d.filterInit]
    /\ UNCHANGED <<busVars, lisVars, hwVars, drvVars, chipCtrl_0x20, snap>>
    /\ UNCHANGED <<millis, run>>

\* ------------------------------------------------------------------------
\* TemperatureSensor::SetResult and GetLatestTemperature, Thermistor::Poll
\*
\* Temperatures are whole degrees Celsius.  The reciprocal temperature that
\* the Steinhart-Hart polynomial gives is a number of millionths of 1/K, or
\* is not a number.
\* ------------------------------------------------------------------------
ABS_ZERO == -273
MinimumConnectedTemperature == -5
BadErrorTemperature == 2000
TemperatureReadingTimeout == 2000
\* the ADC reading of full scale, scaled down
AdcRange == 8

\* Fault variant of SetResult: every code but success is recorded as the
\* last real error
SetResultKeepsNotReady(th, t, rslt, now) ==
    [th EXCEPT !.lastResult = rslt,
               !.lastTemperature = IF rslt = "success" THEN t ELSE @,
               !.whenLastRead = IF rslt = "success" THEN now ELSE @,
               !.lastRealError = IF rslt # "success" THEN rslt ELSE @]

\* TemperatureSensor::SetResult(t, rslt) at time 'now'
SetResult(th, t, rslt, now) ==
    [th EXCEPT !.lastResult = rslt,
               !.lastTemperature = IF rslt = "success" THEN t ELSE @,
               !.whenLastRead = IF rslt = "success" THEN now ELSE @,
               !.lastRealError =
                   IF rslt \notin {"success", "notReady"} THEN rslt ELSE @]

\* Fault variant of GetLatestTemperature: the age of the reading is looked
\* at only when the last result was not success
GetLatestTemperatureTrustsSuccess(th, now) ==
    IF th.lastResult = "success"
      THEN [code |-> "success", t |-> th.lastTemperature]
    ELSE IF now - th.whenLastRead > TemperatureReadingTimeout
      THEN [code |-> "timeout", t |-> th.lastTemperature]
    ELSE [code |-> th.lastResult, t |-> th.lastTemperature]

\* TemperatureSensor::GetLatestTemperature(t) at time 'now'
GetLatestTemperature(th, now) ==
    IF now - th.whenLastRead > TemperatureReadingTimeout
      THEN [code |-> "timeout", t |-> th.lastTemperature]
      ELSE [code |-> th.lastResult, t |-> th.lastTemperature]

ThGetLatest ==
    /\ thermistor.created
    /\ thOut' = [op |-> "GetLatestTemperature", at |-> millis,
                 code |-> GetLatestTemperature(thermistor, millis).code,
                 value |-> GetLatestTemperature(thermistor, millis).t]
    /\ UNCHANGED <<busVars, lisVars, hwVars, drvVars, chipCtrl_0x20, snap>>
    /\ UNCHANGED <<thermistor, millis, run>>

\* time passes
MaxMillis == 3003
TickSteps == {1000, 1001}
Tick(d) ==
    /\ millis + d <= MaxMillis
    /\ millis' = millis + d
    /\ UNCHANGED <<busVars, lisVars, hwVars, drvVars, chipCtrl_0x20, snap>>
    /\ UNCHANGED <<thermistor, thOut, run>>

\* averaged ADC readings of the thermistor channel, and of the VREF and VSSA
\* monitor channels in a build that has them
TempReadings == {0, 4, 7, 13}
VrefReadings == {8}
VssaReadings == {0}

\* twice the denominator and twice the numerator of the resistance
Denom2(th, vref, temp) ==
    IF th.vrefMonitor THEN 2 * (vref - temp)
    ELSE 2 * ((AdcRange + 2 * th.adcHighOffset) - temp) - 1
Numer2(th, vssa, temp) ==
    IF th.vrefMonitor THEN 2 * (temp - vssa)
    ELSE 2 * (temp - 2 * th.adcLowOffset) + 1

\* the values of recipT when the resistance is positive, and when it is not:
\* the logarithm is then minus infinity or not a number
RecipMicro == {-100, 0, 3354, 3731, 3745}
RecipOfPositive == [nan : {FALSE}, micro : RecipMicro]
RecipOfNonPositive == {[nan |-> TRUE, micro |-> 0], [nan |-> FALSE, micro |-> -1000000]}

\* recipT > 0.0
RecipPositive(rc) == ~rc.nan /\ rc.micro > 0

\* temp = (recipT > 0.0) ? (1.0/recipT) + ABS_ZERO : BadErrorTemperature
SteinhartHart(rc) ==
    IF RecipPositive(rc)
      THEN [temp |-> (1000000 \div rc.micro) + ABS_ZERO, path |-> "computed"]
      ELSE [temp |-> BadErrorTemperature, path |-> "substituted"]

\* what GetPT100Temperature may give back
Pt100Results ==
    {[sts |-> "success", t |-> 100], [sts |-> "openCircuit", t |-> BadErrorTemperature],
     [sts |-> "shortCircuit", t |-> BadErrorTemperature]}

\* what Poll passes to SetResult when the filters are valid and the monitor
\* channels are in range: [t, sts, path, rc]
Convert(th, vref, vssa, temp, rc, pt) ==
    IF Denom2(th, vref, temp) <= 0
      THEN [t |-> ABS_ZERO, sts |-> "openCircuit", path |-> "denom", rc |-> rc]
    ELSE IF th.isPT1000
      THEN [t |-> pt.t, sts |-> pt.sts, path |-> "pt1000", rc |-> rc]
    ELSE IF SteinhartHart(rc).temp < MinimumConnectedTemperature
      THEN [t |-> ABS_ZERO, sts |-> "openCircuit",
            path |-> SteinhartHart(rc).path, rc |-> rc]
    ELSE [t |-> SteinhartHart(rc).temp, sts |-> "success",
          path |-> SteinhartHart(rc).path, rc |-> rc]

\* the results of the tests in Poll that the model does not compute: the
\* filters are valid; VREF, VSSA are out of range (a build with the monitor
\* channels only)
FilterInputs(th) ==
    {[valid |-> FALSE, badVref |-> FALSE, badVssa |-> FALSE]}
      \cup [valid : {TRUE},
            badVref : IF th.vrefMonitor THEN BOOLEAN ELSE {FALSE},
            badVssa : IF th.vrefMonitor THEN BOOLEAN ELSE {FALSE}]

\* recipT for a thermistor, and what GetPT100Temperature gives for a PT1000
RecipInputs(th, vssa, temp) ==
    IF th.isPT1000 THEN {[nan |-> TRUE, micro |-> 0]}
    ELSE IF Numer2(th, vssa, temp) > 0 THEN RecipOfPositive
    ELSE RecipOfNonPositive
Pt100Inputs(th) ==
    IF th.isPT1000 THEN Pt100Results ELSE {[sts |-> "success", t |-> 0]}

\* Thermistor::Poll.  It begins by taking filter number adcFilterChannel of
\* the table of averaging filters and asks it IsValid(); thOut.filter is that
\* number.  With a number that is not in the table the filter read is
\* whatever lies there, which FilterInputs and the readings range over.
ThPoll ==
    /\ thermistor.created
    /\ \E f \in FilterInputs(thermistor) :
         IF ~f.valid
           THEN /\ thermistor' = SetResult(thermistor, 0, "notReady", millis)
                /\ thOut' = [op |-> "Poll", code |-> "notReady",
                             value |-> 0, path |-> "notReady",
                             rc |-> [nan |-> TRUE, micro |-> 0],
                             filter |-> thermistor.adcFilterChannel]
         ELSE IF f.badVref \/ f.badVssa
           THEN LET e == IF f.badVref THEN "badVref" ELSE "badVssa"
                IN  /\ thermistor' = SetResult(thermistor, 0, e, millis)
                    /\ thOut' = [op |-> "Poll", code |-> e,
                                 value |-> 0, path |-> e,
                                 rc |-> [nan |-> TRUE, micro |-> 0],
                                 filter |-> thermistor.adcFilterChannel]
         ELSE \E vref \in VrefReadings, vssa \in VssaReadings,
                 temp \in TempReadings, pt \in Pt100Inputs(thermistor) :
                \E rc \in RecipInputs(thermistor, vssa, temp) :
                   LET c == Convert(thermistor, vref, vssa, temp, rc, pt)
                   IN  /\ thermistor' = SetResult(thermistor, c.t, c.sts, millis)
                       /\ thOut' = [op |-> "Poll", code |-> c.sts,
                                    value |-> c.t, path |-> c.path, rc |-> c.rc,
                                    filter |-> thermistor.adcFilterChannel]
    /\ UNCHANGED <<busVars, lisVars, hwVars, drvVars, chipCtrl_0x20, snap>>
    /\ UNCHANGED <<millis, run>>

\* ------------------------------------------------------------------------
\* A collection run as an observer sees it.  StepTimer::GetTimerTicks() reads
\* a timer that runs free: here it has moved on by one tick between two INT1
\* interrupts, so that the interrupts of a run have timestamps that differ.
\* The INT1 line shows the FIFO watermark flag of the chip: once high it
\* stays high until the FIFO is read, and may fall while it is being read.
\* ------------------------------------------------------------------------

\* the timer is read while it is below this
MaxTicks == 3

\* Int1Interrupt, the observer noting the first and the latest timestamp
Int1InterruptAt ==
    /\ ~int1Pin
    /\ attached
    /\ run.clock < MaxTicks
    /\ int1Pin' = TRUE
    /\ Int1Isr(run.clock)
    /\ run' = [clock |-> run.clock + 1,
               seen |-> TRUE,
               first |-> IF run.seen THEN run.first ELSE run.clock,
               last |-> run.clock]
    /\ UNCHANGED <<chipCtrl_0x20, snap, thVars>>

\* the INT1 line falls while CollectData's burst read empties the FIFO
PinFallOnRead ==
    /\ int1Pin
    /\ apc = "cd_burst"
    /\ mutex = AccelTask
    /\ state = "reading"
    /\ int1Pin' = FALSE
    /\ UNCHANGED <<busVars, lisVars, drvVars, attached, notified>>
    /\ UNCHANGED extVars

\* ------------------------------------------------------------------------
\* What the parts of the system that a specification leaves out hold
\* ------------------------------------------------------------------------
SnapNone == [called |-> FALSE]
ThermistorNone == [created |-> FALSE]
ThOutNone == [op |-> "none"]
RunNone == [clock |-> 0, seen |-> FALSE, first |-> 0, last |-> 0]

ExtIdle ==
    /\ chipCtrl_0x20 = 0
    /\ snap = SnapNone
    /\ thermistor = ThermistorNone
    /\ millis = 0
    /\ thOut = ThOutNone
    /\ run = RunNone

\* ------------------------------------------------------------------------
\* The system
\* ------------------------------------------------------------------------

\* values that a member the constructor does not initialise may hold
UninitBytes == {0, 255}
UninitCounts == {0, 1}

\* inputs
StatusBytes ==
    [LIS3DH |-> {1, 32, 65}, LIS3DSH |-> {1, 32, 65}, LIS2DW |-> {0, 1, 65}]
AxesArgs == {7}
CfgRates == {0}
CfgResolutions == {12}

Init ==
    /\ mutex = NoTask
    /\ cpc = [t \in Tasks |-> "idle"]
    /\ creq = [t \in Tasks |-> NoReq]
    /\ mret = [t \in Tasks |-> "none"]
    /\ tret = [t \in Tasks |-> FALSE]
    /\ relCalled = [t \in Tasks |-> FALSE]
    /\ state = "idle"
    /\ errorCounts = [naks |-> 0, sendTimeouts |-> 0, recvTimeouts |-> 0,
                      finishTimeouts |-> 0, resets |-> 0]
    /\ accelerometerType = "LIS3DH"
    /\ ctrlReg_0x20 \in UninitBytes
    /\ interruptError \in BOOLEAN
    /\ totalNumRead \in UninitCounts
    /\ firstInterruptTime \in Times
    /\ lastInterruptTime \in Times
    /\ taskWaiting = NoTask
    /\ transferBuffer = BufferNone
    /\ int1Pin = FALSE
    /\ attached = FALSE
    /\ notified = FALSE
    /\ apc = "idle"
    /\ lv = LvNone
    /\ out = OutNone
    /\ opLog = LogNone
    /\ ExtIdle

\* The bus as its clients see it: every task, the accelerometer task among
\* them, is a client that calls SharedI2CClient::Transfer again and again
InitBus ==
    /\ Init
    /\ ctrlReg_0x20 = 0
    /\ ~interruptError
    /\ totalNumRead = 0
    /\ firstInterruptTime = 0
    /\ lastInterruptTime = 0

ClientNext ==
    \/ \E t \in Tasks : ClientTakeOk(t)
    \/ \E t \in Tasks : ClientTakeTimeout(t)
    \/ \E t \in Tasks : ClientRelease(t)
    \/ \E t \in Tasks : MasterBegin(t)
    \/ \E t \in Tasks : MasterComplete(t)
    \/ \E t \in Tasks : MasterFinishOk(t)
    \/ I2cAdvance(StatusBytes)

FaultNext ==
    \/ \E t \in Tasks : MasterFailed(t)
    \/ \E t \in Tasks : MasterTimeout(t)
    \/ \E t \in Tasks : MasterFinishTimeout(t)
    \/ \E e \in I2cError : I2cFault(e)

NextBus ==
    \/ ClientNext
    \/ FaultNext
    \/ \E t \in Tasks : GenericCall(t, Requests)
    \/ \E t \in Tasks : GenericReturn(t)

SpecBus == InitBus /\ [][NextBus]_vars

\* The accelerometer driver, its interrupt and the clients it shares the bus
\* with.  One competing client is enough to take the mutex at every point
\* where the driver does not hold it; SpecBus varies the number of clients.
\* The driver sees a transfer only succeed or fail; here a transfer fails
\* when the mutex is not obtained in time.
Competitors == {1}

DriverNext ==
    \/ CpCall
    \/ CpRet
    \/ \E rate \in CfgRates, res \in CfgResolutions : CfCall(rate, res)
    \/ CfW1Ret
    \/ CfW2Ret
    \/ CfW3Ret
    \/ \E axes \in AxesArgs : ScCall(axes)
    \/ ScFifoRet
    \/ ScDrainRet
    \/ ScCheck
    \/ ScWriteRet
    \/ StCall
    \/ StRet
    \/ CdCall
    \/ CdReadPin
    \/ CdTake
    \/ CdExit
    \/ CdStatusRet
    \/ CdBurstRet
    \/ CdAdd

Next ==
    \/ ClientNext
    \/ \E t \in Competitors : GenericCall(t, WriteRequests)
    \/ \E t \in Competitors : GenericReturn(t)
    \/ DriverNext
    \/ Int1Interrupt
    \/ PinRise
    \/ PinFall

Spec == Init /\ [][Next]_vars

\* ------------------------------------------------------------------------
\* CollectData on its own: the accelerometer has been found and configured
\* and StartCollecting has returned true
\* ------------------------------------------------------------------------
AccelerometerTypes == {"LIS3DH", "LIS3DSH", "LIS2DW"}

\* the value Configure(0, 12) caches for register 0x20
ConfiguredCtrl(type) ==
    CASE type = "LIS3DSH" -> RateSelect(0, 0).ctrl
      [] type = "LIS2DW" -> RateSelect(0, 4).ctrl
      [] OTHER -> Ctrl3DH(0, 12)

InitCollect ==
    /\ mutex = NoTask
    /\ cpc = [t \in Tasks |-> "idle"]
    /\ creq = [t \in Tasks |-> NoReq]
    /\ mret = [t \in Tasks |-> "none"]
    /\ tret = [t \in Tasks |-> FALSE]
    /\ relCalled = [t \in Tasks |-> FALSE]
    /\ state = "idle"
    /\ errorCounts = [naks |-> 0, sendTimeouts |-> 0, recvTimeouts |-> 0,
                      finishTimeouts |-> 0, resets |-> 0]
    /\ accelerometerType \in AccelerometerTypes
    /\ ctrlReg_0x20 = ConfiguredCtrl(accelerometerType)
    /\ interruptError = FALSE
    /\ totalNumRead = 0
    /\ firstInterruptTime \in Times
    /\ lastInterruptTime \in Times
    /\ taskWaiting = NoTask
    /\ transferBuffer = BufferNone
    /\ int1Pin = FALSE
    /\ attached = TRUE
    /\ notified = FALSE
    /\ apc = "idle"
    /\ lv = LvNone
    /\ out = [op |-> "StartCollecting", val |-> TRUE, overflowed |-> FALSE]
    /\ opLog = [LogNone EXCEPT !.pin = "low", !.wrote20 = TRUE, !.attach = TRUE]
    /\ ExtIdle

\* the steps of the task inside CollectData and inside the transfers it calls
CollectTask ==
    \/ CdCall
    \/ CdReadPin
    \/ CdTake
    \/ CdExit
    \/ CdStatusRet
    \/ CdBurstRet
    \/ CdAdd
    \/ ClientTakeOk(AccelTask)
    \/ MasterBegin(AccelTask)
    \/ MasterComplete(AccelTask)
    \/ MasterFinishOk(AccelTask)
    \/ ClientRelease(AccelTask)

\* every FIFO status byte, for every chip
AllStatusBytes == [type \in AccelerometerTypes |-> 0..255]

NextStatus ==
    \/ CollectTask
    \/ I2cAdvance(AllStatusBytes)
    \/ Int1Interrupt
    \/ PinFall

SpecStatus == InitCollect /\ [][NextStatus]_vars

\* The same with the scheduling made explicit: the task runs whenever it is
\* not blocked, and the bus peripheral keeps interrupting while a transaction
\* is in flight.  Nothing is assumed about the INT1 line.
NextWait ==
    \/ CollectTask
    \/ I2cAdvance(StatusBytes)
    \/ Int1Interrupt
    \/ PinFall

SpecWait ==
    /\ InitCollect
    /\ [][NextWait]_vars
    /\ WF_vars(CollectTask)
    /\ WF_vars(I2cAdvance(StatusBytes))

\* ------------------------------------------------------------------------
\* StopCollecting on its own, the chip in the picture: the accelerometer has
\* been configured, and StartCollecting has written register 0x20 and has
\* attached the handler or has not
\* ------------------------------------------------------------------------

\* the value StartCollecting(7) writes to register 0x20
StartedCtrl(type) ==
    IF type = "LIS2DW" THEN ConfiguredCtrl(type)
                       ELSE BitOr(ConfiguredCtrl(type), 7)

InitStop ==
    /\ mutex = NoTask
    /\ cpc = [t \in Tasks |-> "idle"]
    /\ creq = [t \in Tasks |-> NoReq]
    /\ mret = [t \in Tasks |-> "none"]
    /\ tret = [t \in Tasks |-> FALSE]
    /\ relCalled = [t \in Tasks |-> FALSE]
    /\ state = "idle"
    /\ errorCounts = [naks |-> 0, sendTimeouts |-> 0, recvTimeouts |-> 0,
                      finishTimeouts |-> 0, resets |-> 0]
    /\ accelerometerType \in AccelerometerTypes
    /\ ctrlReg_0x20 = ConfiguredCtrl(accelerometerType)
    /\ interruptError = FALSE
    /\ totalNumRead \in UninitCounts
    /\ firstInterruptTime \in Times
    /\ lastInterruptTime \in Times
    /\ taskWaiting = NoTask
    /\ transferBuffer = BufferNone
    /\ int1Pin = FALSE
    /\ attached \in BOOLEAN
    /\ notified = FALSE
    /\ apc = "idle"
    /\ lv = LvNone
    /\ out = [op |-> "StartCollecting", val |-> attached, overflowed |-> FALSE]
    /\ opLog = [LogNone EXCEPT !.pin = "low", !.wrote20 = TRUE, !.attach = TRUE]
    /\ chipCtrl_0x20 = StartedCtrl(accelerometerType)
    /\ snap = SnapNone
    /\ thermistor = ThermistorNone
    /\ millis = 0
    /\ thOut = ThOutNone
    /\ run = RunNone

NextStop ==
    \/ StCall
    \/ StRet
    \/ \E t \in Tasks : ClientTakeOk(t)
    \/ \E t \in Tasks : ClientTakeTimeout(t)
    \/ \E t \in Tasks : ClientRelease(t)
    \/ \E t \in Tasks : MasterBegin(t)
    \/ \E t \in Tasks : MasterComplete(t)
    \/ \E t \in Tasks : MasterFinishOk(t)
    \/ I2cAdvanceChip(StatusBytes)
    \/ \E t \in Competitors : GenericCall(t, WriteRequests)
    \/ \E t \in Competitors : GenericReturn(t)
    \/ Int1Interrupt
    \/ PinRise
    \/ PinFall

SpecStop == InitStop /\ [][NextStop]_vars

\* ------------------------------------------------------------------------
\* Configure as a function: one call for every chip and every request
\* ------------------------------------------------------------------------
InitSnap ==
    /\ mutex = NoTask
    /\ cpc = [t \in Tasks |-> "idle"]
    /\ creq = [t \in Tasks |-> NoReq]
    /\ mret = [t \in Tasks |-> "none"]
    /\ tret = [t \in Tasks |-> FALSE]
    /\ relCalled = [t \in Tasks |-> FALSE]
    /\ state = "idle"
    /\ errorCounts = [naks |-> 0, sendTimeouts |-> 0, recvTimeouts |-> 0,
                      finishTimeouts |-> 0, resets |-> 0]
    /\ accelerometerType = "LIS3DH"
    /\ ctrlReg_0x20 = 0
    /\ interruptError = FALSE
    /\ totalNumRead = 0
    /\ firstInterruptTime = 0
    /\ lastInterruptTime = 0
    /\ taskWaiting = NoTask
    /\ transferBuffer = BufferNone
    /\ int1Pin = FALSE
    /\ attached = FALSE
    /\ notified = FALSE
    /\ apc = "idle"
    /\ lv = LvNone
    /\ out = OutNone
    /\ opLog = LogNone
    /\ chipCtrl_0x20 = 0
    /\ \E type \in AccelerometerTypes, rate \in SnapRates, res \in SnapResolutions :
          snap = [called |-> FALSE, type |-> type, rate |-> rate, res |-> res,
                  got |-> [rate |-> rate, res |-> res]]
    /\ thermistor = ThermistorNone
    /\ millis = 0
    /\ thOut = ThOutNone
    /\ run = RunNone

NextSnap == SnapCall

SpecSnap == InitSnap /\ [][NextSnap]_vars

\* ------------------------------------------------------------------------
\* The driver alone on the bus, its register write functions callable for
\* any register besides the five public member functions.  A transfer fails
\* when the bus reports an error.
\* ------------------------------------------------------------------------
NextWrite ==
    \/ DriverNext
    \/ \E reg \in WriteTargets, n \in WriteCounts, val \in WriteValues :
          WrCall(reg, n, val)
    \/ WrRet
    \/ ClientTakeOk(AccelTask)
    \/ MasterBegin(AccelTask)
    \/ I2cAdvance(StatusBytes)
    \/ \E e \in I2cError : I2cFault(e)
    \/ MasterComplete(AccelTask)
    \/ MasterFailed(AccelTask)
    \/ MasterFinishOk(AccelTask)
    \/ ClientRelease(AccelTask)
    \/ Int1Interrupt
    \/ PinRise
    \/ PinFall

SpecWrite == InitBus /\ [][NextWrite]_vars

\* ------------------------------------------------------------------------
\* A Thermistor object: constructed as a thermistor or as a PT1000, in either
\* build, then configured again and again
\* ------------------------------------------------------------------------
NextThermistor ==
    \/ \E isPT1000 \in BOOLEAN, vrefMonitor \in BOOLEAN :
          ThCreate(isPT1000, vrefMonitor)
    \/ \E p \in PortArgs, keys \in SUBSET ParamKeys : ThConfigure(p, keys)

SpecThermistor == InitBus /\ [][NextThermistor]_vars

\* ------------------------------------------------------------------------
\* A configured Thermistor object that is polled and asked for its latest
\* temperature while time passes
\* ------------------------------------------------------------------------
InitPoll ==
    /\ mutex = NoTask
    /\ cpc = [t \in Tasks |-> "idle"]
    /\ creq = [t \in Tasks |-> NoReq]
    /\ mret = [t \in Tasks |-> "none"]
    /\ tret = [t \in Tasks |-> FALSE]
    /\ relCalled = [t \in Tasks |-> FALSE]
    /\ state = "idle"
    /\ errorCounts = [naks |-> 0, sendTimeouts |-> 0, recvTimeouts |-> 0,
                      finishTimeouts |-> 0, resets |-> 0]
    /\ accelerometerType = "LIS3DH"
    /\ ctrlReg_0x20 = 0
    /\ interruptError = FALSE
    /\ totalNumRead = 0
    /\ firstInterruptTime = 0
    /\ lastInterruptTime = 0
    /\ taskWaiting = NoTask
    /\ transferBuffer = BufferNone
    /\ int1Pin = FALSE
    /\ attached = FALSE
    /\ notified = FALSE
    /\ apc = "idle"
    /\ lv = LvNone
    /\ out = OutNone
    /\ opLog = LogNone
    /\ chipCtrl_0x20 = 0
    /\ snap = SnapNone
    /\ \E isPT1000 \in BOOLEAN, vrefMonitor \in BOOLEAN,
          lo \in {0, KeyValue.L}, hi \in {0, KeyValue.H} :
          /\ vrefMonitor => lo = 0 /\ hi = 0
          /\ thermistor =
                [NewThermistor(isPT1000, vrefMonitor) EXCEPT
                    !.port = "assigned", !.adcFilterChannel = 0,
                    !.adcLowOffset = lo, !.adcHighOffset = hi]
    /\ millis = 0
    /\ thOut = [op |-> "Configure", port |-> "good", keys |-> {},
                result |-> "ok", summary |-> FALSE, filterInit |-> TRUE]
    /\ run = RunNone

NextPoll ==
    \/ ThPoll
    \/ ThGetLatest
    \/ \E d \in TickSteps : Tick(d)

SpecPoll == InitPoll /\ [][NextPoll]_vars

\* ------------------------------------------------------------------------
\* A collection run: StartCollecting has returned true, the task calls
\* CollectData again and again, the timer advances between interrupts and
\* the INT1 line follows the FIFO of the chip
\* ------------------------------------------------------------------------
NextRun ==
    \/ CollectTask
    \/ I2cAdvance(StatusBytes)
    \/ Int1InterruptAt
    \/ PinFallOnRead

SpecRun == InitCollect /\ [][NextRun]_vars

\* ------------------------------------------------------------------------
\* CheckPresent on its own: the object has been constructed and the task
\* calls CheckPresent again and again, sharing the bus with another client
\* ------------------------------------------------------------------------
NextPresent ==
    \/ CpCall
    \/ CpRet
    \/ ClientNext
    \/ \E t \in Competitors : GenericCall(t, WriteRequests)
    \/ \E t \in Competitors : GenericReturn(t)

SpecPresent == Init /\ [][NextPresent]_vars

\* ------------------------------------------------------------------------
\* A Thermistor object from its construction on: it is configured and
\* polled in any order
\* ------------------------------------------------------------------------

\* the keys that the configuration messages of this specification carry
FilterKeys == {"R"}

NextFilter ==
    \/ \E isPT1000 \in BOOLEAN, vrefMonitor \in BOOLEAN :
          ThCreate(isPT1000, vrefMonitor)
    \/ \E p \in PortArgs, keys \in SUBSET FilterKeys : ThConfigure(p, keys)
    \/ ThPoll

SpecFilter == InitBus /\ [][NextFilter]_vars

\* ------------------------------------------------------------------------
\* Properties of the bus (SpecBus)
\* ------------------------------------------------------------------------

\* task t is between a successful Take and its Release
Holding(t) == cpc[t] \in {"transfer", "wait", "finish", "release"}

\* C1: in every interleaving at most one task is between a successful Take
\* and its Release, and that task owns the mutex; a Take by a second task
\* returns true only in a step taken while no task is there.
C1_OneTaskInside ==
    [][/\ \A t \in Tasks : Holding(t)' => mutex' = t
       /\ \A t, u \in Tasks : Holding(t)' /\ Holding(u)' => t = u
       /\ \A t \in Tasks :
             cpc[t] = "take" /\ cpc'[t] = "transfer"
                => \A u \in Tasks : ~Holding(u)]_vars

\* a task waits in Take while another task, the owner of the mutex, is
\* inside its transfer
C1_Contention ==
    \E t, u \in Tasks :
        /\ t # u
        /\ cpc[t] = "wait"
        /\ mutex = t
        /\ cpc[u] = "take"

\* C2: a client Transfer that acquired the mutex has released it when it
\* returns, after a successful and after a failed master transfer alike, and
\* returns the master transfer's result; when no call is in progress the
\* mutex is free.
C2_ReleasedOnReturn ==
    /\ \A t \in Tasks :
          cpc[t] = "ret" /\ mret[t] # "none"
             => /\ relCalled[t]
                /\ mutex # t
                /\ tret[t] = (mret[t] = "ok")
    /\ (\A t \in Tasks : cpc[t] \in {"idle", "take", "ret"}) => mutex = NoTask

\* one call has returned after a failed transfer and another after a
\* successful one, and the mutex is free
C2_BothOutcomes ==
    \E t, u \in Tasks :
        /\ cpc[t] = "ret" /\ mret[t] = "fail" /\ ~tret[t]
        /\ cpc[u] = "ret" /\ mret[u] = "ok" /\ tret[u]
        /\ mutex = NoTask

\* C3: when Take fails within the timeout the client Transfer returns false
\* in that step, having started no bus transfer and not called Release: the
\* mutex, the bus state machine and the error counters are as they were.  A
\* task at Take never owns the mutex it waits for and always has a step to
\* take (it gets the mutex or it times out), so no task is stuck there.
C3_TakeFailure ==
    [][\A t \in Tasks :
          /\ cpc[t] = "take" /\ cpc'[t] = "ret"
                => /\ ~tret'[t]
                   /\ ~relCalled'[t]
                   /\ mret'[t] = "none"
                   /\ mutex # t
                   /\ UNCHANGED <<mutex, state, errorCounts>>
          /\ cpc'[t] = "take" => mutex' # t
          /\ cpc[t] = "take"
                => ENABLED (ClientTakeOk(t) \/ ClientTakeTimeout(t))]_vars

\* a call has returned false because Take failed, and the task that held
\* the mutex still holds it
C3_BusBusy ==
    \E t \in Tasks :
        /\ cpc[t] = "ret"
        /\ mret[t] = "none"
        /\ ~tret[t]
        /\ ~relCalled[t]
        /\ mutex \notin {t, NoTask}
        /\ Holding(mutex)

\* the timeout counters
Timeouts == {"sendTimeouts", "recvTimeouts", "finishTimeouts"}

\* task t's transaction times out in this step
TimeoutStep(t) ==
    \/ cpc[t] = "wait" /\ state \in I2cActive /\ cpc'[t] = "release"
    \/ cpc[t] = "finish" /\ cpc'[t] = "release" /\ mret'[t] = "fail"

\* the counter that matches the phase in which the timeout happens
MatchingCounter(t) ==
    IF cpc[t] = "finish" THEN "finishTimeouts"
    ELSE IF state \in {"sendingAddressForWrite", "writing"} THEN "sendTimeouts"
    ELSE "recvTimeouts"

C4_MutexPerTransaction ==
    /\ cpc[AccelTask] \in {"idle", "take", "ret"} => mutex # AccelTask
    /\ apc \in {"idle", "cd_loop", "cd_take", "cd_exit", "cd_add", "sc_check"}
          => cpc[AccelTask] = "idle"
    /\ Holding(AccelTask)
          => /\ mutex = AccelTask
             /\ apc \in {"cp_read", "cf_w1", "cf_w2", "cf_w3", "sc_fifo", "sc_drain",
                         "sc_write", "st_write", "cd_status", "cd_burst"}

\* between the FIFO status read and the burst read of CollectData another
\* client's transaction is in flight and the accelerometer task waits for
\* the mutex
C4_Interleaved ==
    \E u \in Competitors :
        /\ apc = "cd_burst"
        /\ cpc[AccelTask] = "take"
        /\ mutex = u
        /\ cpc[u] = "wait"
        /\ state = "writing"

\* C6: when the interrupt line reads high at StartCollecting's check,
\* StartCollecting returns false with interruptError set, and in that call
\* register 0x20 has not been written and attachInterrupt has not been
\* called.
C6_LineHighRefused ==
    opLog.pin = "high"
       => /\ apc = "idle"
          /\ out.op = "StartCollecting"
          /\ out.val = FALSE
          /\ interruptError
          /\ ~opLog.wrote20
          /\ ~opLog.attach

\* StartCollecting has returned false because the line read high
C6_Refused ==
    /\ opLog.pin = "high"
    /\ out.op = "StartCollecting"
    /\ out.val = FALSE
    /\ interruptError

\* C7: a task in the wait loop of CollectData goes on to read the FIFO
\* status once the interrupt line is high and stays high.
C7_EventuallyWoken ==
    (apc \in {"cd_loop", "cd_take"} /\ int1Pin) ~> (~int1Pin \/ apc = "cd_status")

\* this step is an invocation of Int1Isr
IsrStep == ~int1Pin /\ int1Pin' /\ attached

\* C8: an invocation of Int1Isr changes only firstInterruptTime,
\* lastInterruptTime, taskWaiting and the task's notification: the bus mutex,
\* the bus state machine, every client's position, transferBuffer,
\* totalNumRead, the cache of register 0x20 and the rest of the driver's
\* state are unchanged.
C8_IsrFrame ==
    [][IsrStep
          => UNCHANGED <<busVars, transferBuffer, totalNumRead, ctrlReg_0x20,
                         accelerometerType, interruptError, attached, drvVars>>]_vars

\* the handler has notified the task, and the task is in the middle of the
\* FIFO status read
C8_HandlerRan ==
    /\ notified
    /\ taskWaiting = NoTask
    /\ int1Pin
    /\ apc = "cd_status"
    /\ mutex = AccelTask
    /\ state = "reading"

\* C9 as stated: firstInterruptTime, lastInterruptTime and totalNumRead are
\* written only by the interrupt handler, and the task reads them only
\* after the handler has woken it.
C9_WrittenOnlyByHandler ==
    [][/\ (\/ firstInterruptTime' # firstInterruptTime
           \/ lastInterruptTime' # lastInterruptTime
           \/ totalNumRead' # totalNumRead) => IsrStep
       /\ opLog'.tsRead # "unwoken"]_vars

\* C9, amended: firstInterruptTime and lastInterruptTime are written only by
\* the interrupt handler; totalNumRead is written only by the task, in
\* StartCollecting and at the end of CollectData, never by the handler; the
\* task reads the timestamps only in CollectData after the burst read has
\* succeeded and only when totalNumRead is not 0.
C9_SharedFieldAccess ==
    [][/\ (\/ firstInterruptTime' # firstInterruptTime
           \/ lastInterruptTime' # lastInterruptTime) => IsrStep
       /\ totalNumRead' # totalNumRead
             => ~IsrStep /\ apc \in {"sc_fifo", "cd_add"}
       /\ opLog'.tsRead # "no" /\ opLog.tsRead = "no"
             => /\ ~IsrStep
                /\ apc = "cd_burst"
                /\ tret[AccelTask]
                /\ totalNumRead # 0]_vars

\* CollectData has read the timestamps without having been woken by the
\* handler, and has then added to totalNumRead
C9_ReadUnwoken ==
    /\ out.op = "CollectData"
    /\ opLog.tsRead = "unwoken"
    /\ totalNumRead = 2

\* the sample count that FIFO status byte s indicates
IndicatedCount(type, s) ==
    IF type = "LIS2DW" THEN s % 64
    ELSE IF s % 32 = 0 /\ (s \div 32) % 2 = 0 THEN 32
    ELSE s % 32

\* C10: for every FIFO status byte and every chip, when the bus reads
\* succeed CollectData returns the count the status indicates and has asked
\* for 6 bytes per sample in one burst read; when that count is not 0 the
\* overflow flag is bit 0x40 of the status; when it is 0 there is no burst
\* read and the flag is left as the caller passed it.
C10_CountAndOverflow ==
    out.op = "CollectData" /\ opLog.status >= 0
                           /\ (opLog.burstOk \/ opLog.burst = 0)
       => LET n == IndicatedCount(accelerometerType, opLog.status)
          IN /\ out.val = n
             /\ opLog.burst = 6 * n
             /\ opLog.burstOk = (n # 0)
             /\ out.overflowed = (n # 0 /\ (opLog.status \div 64) % 2 = 1)

\* a status of 24 samples with bit 0x40 clear: 24 samples, 144 bytes, no
\* overflow
C10_Status24 ==
    /\ out.op = "CollectData"
    /\ opLog.status = 24
    /\ opLog.burstOk
    /\ opLog.burst = 144
    /\ out.val = 24
    /\ ~out.overflowed

\* ------------------------------------------------------------------------
\* Properties of StopCollecting (SpecStop)
\* ------------------------------------------------------------------------

\* a step of the INT1 line, with or without the handler
PinStep == int1Pin' # int1Pin

\* the members of the driver that StopCollecting has no business with
StopFrame ==
    <<accelerometerType, ctrlReg_0x20, interruptError, totalNumRead,
      firstInterruptTime, lastInterruptTime, taskWaiting, attached, notified>>

\* C11: StopCollecting writes the value 0 to control register 0x20 and does
\* nothing else.  No step of it detaches the INT1 handler or changes the
\* cached ctrlReg_0x20, totalNumRead, the interrupt timestamps or taskWaiting;
\* the one transaction it starts is a one-byte write of 0 to register 0x20,
\* and the chip's register changes during the call only by becoming 0.  When
\* the write has succeeded the chip holds 0 in register 0x20, whatever it
\* held before, so a call that follows another leaves the driver and the
\* chip as the first one left them.
C11_StopWritesZeroOnly ==
    /\ [][(apc = "st_write" \/ apc' = "st_write") =>
            /\ ~PinStep => UNCHANGED StopFrame
            /\ attached => attached'
            /\ chipCtrl_0x20' # chipCtrl_0x20 =>
                  chipCtrl_0x20' = 0 /\ mutex = AccelTask]_vars
    /\ [](apc = "st_write" =>
            /\ transferBuffer.reg = Ctrl_0x20
            /\ transferBuffer.data0 = 0
            /\ cpc[AccelTask] \in {"take", "transfer", "wait", "finish", "release"}
                  => creq[AccelTask] = [nw |-> 2, nr |-> 0]
            /\ cpc[AccelTask] = "ret" /\ tret[AccelTask] => chipCtrl_0x20 = 0)

\* StopCollecting is called again after a call that has written the
\* register: the byte is on its way to a register that holds 0 already,
\* with the handler still attached
C11_SecondStop ==
    /\ apc = "st_write"
    /\ mutex = AccelTask
    /\ state = "writing"
    /\ chipCtrl_0x20 = 0
    /\ attached
    /\ ctrlReg_0x20 # 0


\* ------------------------------------------------------------------------
\* Properties of Configure as a function (SpecSnap)
\* ------------------------------------------------------------------------

\* the sampling rates chip 'type' supports at resolution 'res'
SupportedRates(type, res) ==
    IF type = "LIS3DH"
      THEN IF res = 8 THEN {400, 1600, 5376} ELSE {400, 1344}
      ELSE {400, 800, 1600}

\* the resolutions chip 'type' supports
SupportedResolutions(type) ==
    CASE type = "LIS3DSH" -> {16}
      [] type = "LIS2DW" -> {14}
      [] OTHER -> {8, 10, 12}

Distance(a, b) == IF a >= b THEN a - b ELSE b - a

\* v is a member of S and no member of S is nearer to 'wanted'
Nearest(v, wanted, S) ==
    /\ v \in S
    /\ \A s \in S : Distance(v, wanted) <= Distance(s, wanted)

\* C12: for every requested sampling rate and resolution, and every chip,
\* Configure gives back the supported resolution nearest to the one asked
\* for and the supported rate nearest to the one asked for (a rate of 0 asks
\* for the default and is left out)
C12_NearestSupported ==
    snap.called /\ snap.rate # 0 =>
        /\ Nearest(snap.got.res, snap.res, SupportedResolutions(snap.type))
        /\ Nearest(snap.got.rate, snap.rate,
                   SupportedRates(snap.type, snap.got.res))


\* ------------------------------------------------------------------------
\* Properties of the register write functions (SpecWrite)
\* ------------------------------------------------------------------------

\* the accelerometer task is inside SharedI2CClient::Transfer
InTransfer == cpc[AccelTask] \in {"take", "transfer", "wait", "finish", "release"}

\* C13: a call of WriteRegister or WriteRegisters for a register below 0x1E
\* returns false at once: the call step leaves the mutex, the bus and the
\* register byte of the buffer alone and does not enter Transfer, and the
\* task goes nowhere near the bus before the function has returned.  Hence
\* whatever CheckPresent, Configure, StartCollecting, CollectData,
\* StopCollecting and the write functions are called in whatever order, a
\* write transaction never targets a register below 0x1E.
C13_CalibrationGuard ==
    /\ [][apc = "idle" /\ apc' = "wr_write" /\ lv'.reg < 30 =>
            /\ cpc'[AccelTask] = "ret"
            /\ ~tret'[AccelTask]
            /\ UNCHANGED <<mutex, state, errorCounts, creq, relCalled>>
            /\ transferBuffer'.reg = transferBuffer.reg]_vars
    /\ [](apc = "wr_write" /\ lv.reg < 30 =>
            ~InTransfer /\ mutex # AccelTask /\ ~tret[AccelTask])
    /\ [](InTransfer /\ creq[AccelTask].nr = 0 => transferBuffer.reg >= 30)

\* a write to register 0x1D has been refused, with the bus free
C13_Refused ==
    /\ apc = "wr_write"
    /\ lv.reg = 29
    /\ cpc[AccelTask] = "ret"
    /\ ~tret[AccelTask]
    /\ mutex = NoTask
    /\ state = "idle"


\* ------------------------------------------------------------------------
\* Properties of Thermistor::Configure (SpecThermistor)
\* ------------------------------------------------------------------------

\* the step is a call of Configure: thOut' describes it
ConfigureStep ==
    /\ thermistor.created
    /\ thOut'.op = "Configure"
    /\ <<thermistor, thOut>>' # <<thermistor, thOut>>

\* C16: Configure leaves every attribute whose key is not in the message as
\* it was: the port without the port key, seriesR without R, beta without B,
\* shC without C, r25 without T, the ADC offsets without L and H; shC is set
\* to zero only when B is in the message and C is not
C16_AbsentKeysUntouched ==
    [][ConfigureStep =>
          /\ \A k \in ParamKeys :
                k \notin thOut'.keys =>
                    \/ thermistor'[KeyField[k]] = thermistor[KeyField[k]]
                    \/ /\ k = "C"
                       /\ "B" \in thOut'.keys
                       /\ thermistor'.shC = 0
          /\ thOut'.port = "absent" => thermistor'.port = thermistor.port]_vars

\* the keys of the message that this object recognises
Recognised(th, keys) ==
    keys \cap ({"R"} \cup (IF th.isPT1000 THEN {} ELSE {"B", "C", "T"})
                     \cup (IF th.vrefMonitor THEN {} ELSE {"L", "H"}))

C18_DerivedConsistent ==
    thermistor.created =>
        /\ thermistor.shB = ShB(thermistor.beta)
        /\ thermistor.shA = ShA(thermistor.r25, thermistor.shB, thermistor.shC)

\* a thermistor has been given B, C and T that differ from the defaults
C18_Reconfigured ==
    /\ thermistor.created
    /\ ~thermistor.isPT1000
    /\ thOut.op = "Configure"
    /\ thermistor.beta = KeyValue.B
    /\ thermistor.shC = KeyValue.C
    /\ thermistor.r25 = KeyValue.T


\* ------------------------------------------------------------------------
\* Properties of the temperature cache and of Thermistor::Poll (SpecPoll)
\* ------------------------------------------------------------------------

\* C14: GetLatestTemperature returns the timeout classification, and not
\* success, whenever more than TemperatureReadingTimeout milliseconds have
\* gone by since the last successful update, whatever value is cached; it
\* returns success, with the cached value, only if the last result was
\* success and the cached value is not older than that
C14_StaleAfterTimeout ==
    [][thOut'.op = "GetLatestTemperature" /\ thOut' # thOut =>
          LET age == millis - thermistor.whenLastRead
          IN  /\ age > TemperatureReadingTimeout => thOut'.code = "timeout"
              /\ thOut'.code = "success" =>
                    /\ thermistor.lastResult = "success"
                    /\ age <= TemperatureReadingTimeout
                    /\ thOut'.value = thermistor.lastTemperature
              /\ thermistor.lastResult = "success"
                   /\ age <= TemperatureReadingTimeout
                    => thOut'.code = "success"]_vars

\* a reading cached with success is 2001 ms old and is reported as timed out
C14_Stale ==
    /\ thermistor.created
    /\ thermistor.lastResult = "success"
    /\ thOut.op = "GetLatestTemperature"
    /\ thOut.at = millis
    /\ millis - thermistor.whenLastRead = TemperatureReadingTimeout + 1
    /\ thOut.code = "timeout"

\* the step is a call of Poll, which calls SetResult once: thOut' describes it
PollStep ==
    /\ thOut'.op = "Poll"
    /\ <<thermistor, thOut>>' # <<thermistor, thOut>>

\* C15: every SetResult makes lastResult the code it was given; it makes
\* lastRealError that code when the code is neither success nor notReady and
\* leaves lastRealError alone otherwise, so that lastRealError is the code of
\* the most recent result that was neither; the cached value and its
\* timestamp change only when the code is success
C15_StickyError ==
    [][PollStep =>
          /\ thermistor'.lastResult = thOut'.code
          /\ thermistor'.lastRealError =
                IF thOut'.code \in {"success", "notReady"}
                  THEN thermistor.lastRealError ELSE thOut'.code
          /\ thOut'.code # "success" =>
                /\ thermistor'.lastTemperature = thermistor.lastTemperature
                /\ thermistor'.whenLastRead = thermistor.whenLastRead
          /\ thOut'.code = "success" =>
                /\ thermistor'.lastTemperature = thOut'.value
                /\ thermistor'.whenLastRead = millis]_vars

\* the filter was not ready at the last Poll, after an open circuit: the
\* last result is notReady and the last real error is still openCircuit
C15_ErrorKept ==
    /\ thermistor.created
    /\ thOut.op = "Poll"
    /\ thOut.code = "notReady"
    /\ thermistor.lastResult = "notReady"
    /\ thermistor.lastRealError = "openCircuit"

\* C19: with valid filter readings, Poll in thermistor mode reports success
\* only with a temperature that was computed by the Steinhart-Hart formula
\* and is not below the minimum connected temperature; a reference reading
\* that does not exceed the measured one, a reciprocal temperature that is
\* not positive or not a number, and a computed temperature below the minimum
\* are each reported as openCircuit with absolute zero, never as success
C19_EdgeCasesOpenCircuit ==
    thermistor.created /\ ~thermistor.isPT1000 /\ thOut.op = "Poll"
      /\ thOut.path \in {"denom", "computed", "substituted"}
    => /\ thOut.code = "success" =>
             /\ thOut.path = "computed"
             /\ RecipPositive(thOut.rc)
             /\ thOut.value = (1000000 \div thOut.rc.micro) + ABS_ZERO
             /\ thOut.value >= MinimumConnectedTemperature
       /\ thOut.path = "denom" \/ ~RecipPositive(thOut.rc)
            \/ thOut.value < MinimumConnectedTemperature
          => thOut.code = "openCircuit" /\ thOut.value = ABS_ZERO


\* ------------------------------------------------------------------------
\* Properties of the order of StartCollecting (Spec)
\* ------------------------------------------------------------------------

\* the accelerometer task is inside StartCollecting
InStartCollecting == apc \in {"sc_fifo", "sc_drain", "sc_check", "sc_write"}

\* C20: StartCollecting drains the FIFO, verifies that the line is low,
\* resets totalNumRead, writes the control register and attaches the INT1
\* handler, in that order and each step only when the ones before it have
\* succeeded: it writes totalNumRead only when the line has been read low,
\* so that a call that is refused or fails has not reset the counter; it
\* writes the control register only when the line has been read low; it
\* attaches the handler only when the write of the control register has
\* succeeded
C20_StepsInOrder ==
    [][InStartCollecting =>
          /\ totalNumRead' # totalNumRead => opLog.pin = "low"
          /\ opLog'.wrote20 /\ ~opLog.wrote20 => opLog'.pin = "low"
          /\ opLog'.attach /\ ~opLog.attach =>
                opLog.wrote20 /\ tret[AccelTask]]_vars

\* ------------------------------------------------------------------------
\* Properties of a collection run (SpecRun)
\* ------------------------------------------------------------------------

\* C21: once an interrupt has occurred in the collection run,
\* firstInterruptTime is the timestamp of the first interrupt of the run and
\* lastInterruptTime is the timestamp of the latest one, whatever CollectData
\* has done in between: no later interrupt overwrites firstInterruptTime
C21_FirstAndLastTimes ==
    run.seen =>
        /\ firstInterruptTime = run.first
        /\ lastInterruptTime = run.last


\* C23: whenever CollectData is about to compute the data rate with
\* totalNumRead != 0, that is when its burst read has returned true, the
\* divisor lastInterruptTime - firstInterruptTime is not zero
C23_DivisorNonZero ==
    Returned("cd_burst") /\ tret[AccelTask] /\ totalNumRead # 0 =>
        lastInterruptTime - firstInterruptTime # 0

\* C24: when CollectData has left its wait loop and is about to start its
\* first bus transaction, the task has no pending notification from Int1Isr
C24_NoStaleNotification ==
    apc = "cd_exit" => ~notified


\* ------------------------------------------------------------------------
\* Properties of CheckPresent (SpecPresent)
\* ------------------------------------------------------------------------

\* CheckPresent acts on the result of its latest read of WHO_AM_I
CheckStep ==
    /\ apc = "cp_read"
    /\ cpc[AccelTask] = "ret"
    /\ <<apc, lv, out>>' # <<apc, lv, out>>

\* C22: CheckPresent clears interruptError when it is called and begins with
\* the first address of the table.  After each read of WHO_AM_I: if the read
\* succeeded with 0x33, 0x3F or 0x44 it returns true with accelerometerType
\* LIS3DH, LIS3DSH or LIS2DW; if not, it reads WHO_AM_I at the next address
\* of the table, or returns false after the last one, and in both cases
\* accelerometerType is left as it was.  Nothing else in CheckPresent changes
\* accelerometerType, and interruptError stays clear until it returns.
C22_VariantFromWhoAmI ==
    /\ [][/\ apc = "idle" /\ apc' = "cp_read" =>
                ~interruptError' /\ lv'.idx = 1 /\ transferBuffer'.reg = WhoAmI
          /\ CheckStep =>
                LET v == transferBuffer.data0
                IN IF tret[AccelTask] /\ v \in {51, 63, 68}
                     THEN /\ out' = [out EXCEPT !.op = "CheckPresent", !.val = TRUE]
                          /\ apc' = "idle"
                          /\ v = 51 => accelerometerType' = "LIS3DH"
                          /\ v = 63 => accelerometerType' = "LIS3DSH"
                          /\ v = 68 => accelerometerType' = "LIS2DW"
                   ELSE IF lv.idx < 4
                     THEN /\ apc' = "cp_read"
                          /\ lv'.idx = lv.idx + 1
                          /\ transferBuffer'.reg = WhoAmI
                          /\ accelerometerType' = accelerometerType
                     ELSE /\ out' = [out EXCEPT !.op = "CheckPresent", !.val = FALSE]
                          /\ apc' = "idle"
                          /\ accelerometerType' = accelerometerType
          /\ accelerometerType' # accelerometerType => CheckStep]_vars
    /\ [](apc = "cp_read" => ~interruptError)

\* a CheckPresent that found no chip at any of the four addresses has
\* returned false, after an earlier one had found a LIS3DSH
C22_NotFoundKeepsType ==
    /\ out.op = "CheckPresent"
    /\ out.val = FALSE
    /\ accelerometerType = "LIS3DSH"
    /\ apc = "idle"


\* ------------------------------------------------------------------------
\* Properties of the filter that Poll reads (SpecFilter)
\* ------------------------------------------------------------------------

\* C25: whenever Poll has read the table of averaging filters, the number of
\* the filter it read was adcFilterChannel >= 0
C25_ValidFilterIndex ==
    thOut.op = "Poll" => thOut.filter >= 0

=============================================================================
